---- MODULE Spec2Model ----
(***************************************************************************)
(* Manning Table Generator (src/app.py): the "Generate Manning Table"      *)
(* handler.  The catalog (structural_df) is walked in sort order; for each *)
(* catalog row the handler closes finished groups (TOTAL / BREAKDOWN rows),*)
(* opens new groups (HEADER rows), matches employees, accumulates the      *)
(* per-level sums and breakdown maps and appends the DATA rows.            *)
(*                                                                         *)
(* Encoding of cell values: text cells are strings; numeric cells          *)
(* (Standard, Actual, Vacant, Excess) are integers, with the two text      *)
(* values those cells can also hold encoded as negative integers:          *)
(* STAR for '*' and BLANK for ''.  A catalog's raw Standard cell can also   *)
(* be missing (NAN) or hold a text that is not a number (TEXT).            *)
(***************************************************************************)
EXTENDS Integers, Sequences, FiniteSets, TLC

\* ---------------------------------------------------------------- bounds
MaxCatalog == 2     \* catalog rows in structural_df
MaxEmployees == 2   \* rows in cleaned_df
MaxStandard == 1    \* largest numeric Standard in the catalog
MaxRuns == 2        \* clicks on "Generate Manning Table" in one session

\* ------------------------------------------------------- cell encodings
STAR == -1          \* the text '*'
BLANK == -2         \* the text ''
NAN == -3           \* a missing cell (pd.isna)
TEXT == -4          \* a text float() cannot parse, such as 'abc'

\* ---------------------------------------------------------- input values
\* Two input families.  "" is a cell that is blank after strip(); it sorts
\* before every name.
\* Family 1 (Spec): one department with two cost centers; varied ranks,
\* standards and employees.
DirGroupNames == {"A"}
DirectorateNames == {"A"}
DivisionNames == {"A"}
DepartmentNames == {"A"}
CostCenterNames == {"A", "B"}
PositionCodes == {"1"}
Ranks == {"I", "II"}
Standards == {STAR} \cup (0..MaxStandard)
RegNos == {"E1", "E2"}
Statuses == {"K"}
EmpNames == {"N"}

\* Family 2 (SpecOrg): varied organisational paths, blank cells included;
\* one position, one standard.
OrgDirGroupNames == {"A", "B"}
OrgDirectorateNames == {"", "A", "B"}
OrgDivisionNames == {"A", "B"}
OrgDepartmentNames == {"", "A", "B"}
OrgCostCenterNames == {"A"}
OrgRanks == {"I"}
OrgStandards == {MaxStandard}

\* Family 3 (SpecStd): one department with two cost centers, one rank; the
\* raw Standard cell takes every kind of value the metric computation
\* tells apart.
\* A number below zero is a number to float(): it takes the numeric branch.
NegativeStandards == {-5}

RawStandards == {NAN, BLANK, STAR, TEXT} \cup NegativeStandards \cup (0..MaxStandard)

\* Family 4 (SpecSession): a session with repeated runs over the same
\* inputs; one department with two cost centers, one rank, one standard.
\* A run's input files may lack a column the handler reads.
MissingColumns == {"none", "Position Code", "Standard"}

\* Family 7 (SpecBrk): paths with blank and named Directorates and
\* Departments; employees of two ranks and two status categories.
BrkDirectorateNames == {"", "A", "B"}
BrkDepartmentNames == {"", "A"}
BrkRankStatus == {<<"I", "K">>, <<"II", "T">>}

\* Family 9 (SpecTree): catalogs over a fixed organization tree in which
\* every group name has one parent path, next to one path that reuses a
\* cost-center name under another department and one with a blank
\* department; standards zero and positive.
TreePaths ==
    {<<"A", "A", "A", "A", "A">>, <<"A", "A", "A", "A", "B">>,
     <<"A", "A", "A", "B", "C">>, <<"A", "B", "B", "C", "D">>,
     <<"B", "C", "C", "D", "I">>,
     <<"A", "A", "A", "B", "A">>, <<"A", "A", "A", "", "B">>}

TreeStandards == {0, MaxStandard}

\* Ascending order of the text values, as sort_values compares them.
StrOrder == <<"", "1", "A", "B", "C", "D", "I", "II">>

Ord(s) == CHOOSE k \in 1..Len(StrOrder) : StrOrder[k] = s

CatalogRow ==
    [DepartmentGroup : DirGroupNames, Directorate : DirectorateNames,
     Division : DivisionNames, Department : DepartmentNames,
     CostCenter : CostCenterNames, PositionCode : PositionCodes,
     LevelPangkat : Ranks, Standard : Standards]

Employee ==
    [Nama : EmpNames, RegNo : RegNos, PositionCode : PositionCodes,
     PangkatLevel : Ranks, Status : Statuses]

OrgCatalogRow ==
    [DepartmentGroup : OrgDirGroupNames, Directorate : OrgDirectorateNames,
     Division : OrgDivisionNames, Department : OrgDepartmentNames,
     CostCenter : OrgCostCenterNames, PositionCode : PositionCodes,
     LevelPangkat : OrgRanks, Standard : OrgStandards]

TreeCatalogRow ==
    {[DepartmentGroup |-> p[1], Directorate |-> p[2], Division |-> p[3],
      Department |-> p[4], CostCenter |-> p[5], PositionCode |-> c,
      LevelPangkat |-> l, Standard |-> n] :
        p \in TreePaths, c \in PositionCodes, l \in OrgRanks, n \in TreeStandards}

OrgEmployee ==
    [Nama : EmpNames, RegNo : RegNos, PositionCode : PositionCodes,
     PangkatLevel : OrgRanks, Status : Statuses]

StdCatalogRow ==
    [DepartmentGroup : DirGroupNames, Directorate : DirectorateNames,
     Division : DivisionNames, Department : DepartmentNames,
     CostCenter : CostCenterNames, PositionCode : PositionCodes,
     LevelPangkat : OrgRanks, Standard : RawStandards]

SessCatalogRow ==
    [DepartmentGroup : DirGroupNames, Directorate : DirectorateNames,
     Division : DivisionNames, Department : DepartmentNames,
     CostCenter : CostCenterNames, PositionCode : PositionCodes,
     LevelPangkat : OrgRanks, Standard : OrgStandards]

BrkCatalogRow ==
    [DepartmentGroup : DirGroupNames, Directorate : BrkDirectorateNames,
     Division : DivisionNames, Department : BrkDepartmentNames,
     CostCenter : OrgCostCenterNames, PositionCode : PositionCodes,
     LevelPangkat : Ranks, Standard : OrgStandards]

BrkEmployee ==
    {[Nama |-> n, RegNo |-> e, PositionCode |-> c,
      PangkatLevel |-> rs[1], Status |-> rs[2]] :
        n \in EmpNames, e \in RegNos, c \in PositionCodes, rs \in BrkRankStatus}

\* sort_values(by=[DepartmentGroup, Directorate, Division, Department,
\*                 CostCenter, Position Code, Level/Pangkat])
SortKey(r) ==
    <<Ord(r.DepartmentGroup), Ord(r.Directorate), Ord(r.Division),
      Ord(r.Department), Ord(r.CostCenter), Ord(r.PositionCode),
      Ord(r.LevelPangkat)>>

RECURSIVE LexLeq(_, _, _)
LexLeq(a, b, k) ==
    IF k > Len(a) THEN TRUE
    ELSE IF a[k] < b[k] THEN TRUE
    ELSE IF a[k] > b[k] THEN FALSE
    ELSE LexLeq(a, b, k + 1)

IsSorted(df) ==
    \A k \in 1..(Len(df) - 1) : LexLeq(SortKey(df[k]), SortKey(df[k + 1]), 1)

SeqsUpTo(S, n) == UNION {[1..k -> S] : k \in 0..n}

VARIABLES
    structural_df,      \* the catalog, after sort_values
    cleaned_df,         \* the cleaned employee records
    pc,                 \* "loop" | "done"
    idx,                \* position of the for loop in structural_df
    assigned_employees,
    manning_records,
    last_dir_group, last_directorate, last_division, last_department, last_cc,
    cc_sum, dept_sum, div_sum, dir_sum, dirgrp_sum,
    dept_level_dict, dept_status_dict,
    dir_level_dict, dir_status_dict,
    dirgrp_level_dict, dirgrp_status_dict,
    manning_table,      \* st.session_state.manning_table
    missing,            \* the column this run's input files lack, or "none"
    error,              \* the last run reported an error (st.error)
    runs,               \* clicks on "Generate Manning Table" so far
    master_df,          \* the roster, as read by "Generate Cleaned Data"
    lookup_df,          \* the catalog, as read by "Generate Cleaned Data"
    cleaned_records,
    emp_idx,            \* position of the cleaner's loop in valid_employees
    cpc,                \* the cleaner: "idle" | "loop" | "done" | "failed"
    cleaned_data        \* st.session_state.cleaned_data

sessionVars == <<missing, error, runs>>

cleanerVars == <<master_df, lookup_df, cleaned_records, emp_idx, cpc, cleaned_data>>

vars ==
    <<sessionVars, cleanerVars, structural_df, cleaned_df, pc, idx, assigned_employees, manning_records,
      last_dir_group, last_directorate, last_division, last_department, last_cc,
      cc_sum, dept_sum, div_sum, dir_sum, dirgrp_sum,
      dept_level_dict, dept_status_dict, dir_level_dict, dir_status_dict,
      dirgrp_level_dict, dirgrp_status_dict, manning_table>>

\* ------------------------------------------------------------- row kinds
ZeroSum == [std |-> 0, act |-> 0, vac |-> 0, exc |-> 0]

NoTable == [present |-> FALSE, rows |-> <<>>]

\* One record shape for all four row kinds.  LEVEL and NAME are the two
\* substitutions of HEADER_TEXT / TOTAL_TEXT; KIND and ITEMS are the prefix
\* and the "k (v)" list of BREAKDOWN_TEXT (ITEMS = <<>> prints as "-").
EmptyRow ==
    [ROW_TYPE |-> "", LEVEL |-> "", NAME |-> "", KIND |-> "", ITEMS |-> <<>>,
     PositionCode |-> "", PangkatLevel |-> "",
     Standard |-> BLANK, Actual |-> BLANK, Vacant |-> BLANK, Excess |-> BLANK,
     Name |-> "", RegNo |-> "", Status |-> ""]

TotalRow(level_name, name, s) ==
    [EmptyRow EXCEPT !.ROW_TYPE = "TOTAL", !.LEVEL = level_name, !.NAME = name,
                     !.Standard = IF s.std # 0 THEN s.std ELSE BLANK,
                     !.Actual = s.act, !.Vacant = s.vac, !.Excess = s.exc]

add_totals_row(recs, level_name, name, s) ==
    Append(recs, TotalRow(level_name, name, s))

BreakdownRow(kind, dict) ==
    [EmptyRow EXCEPT !.ROW_TYPE = "BREAKDOWN", !.KIND = kind, !.ITEMS = dict]

\* Variant: only the rank breakdown is written.
add_breakdown_rows_rank_only(recs, level_dict, status_dict) ==
    IF level_dict = <<>> /\ status_dict = <<>> THEN recs
    ELSE recs \o <<BreakdownRow("Pangkat", level_dict)>>

\* Variant: status breakdown before rank breakdown.
add_breakdown_rows_status_first(recs, level_dict, status_dict) ==
    IF level_dict = <<>> /\ status_dict = <<>> THEN recs
    ELSE recs \o <<BreakdownRow("Status", status_dict),
                   BreakdownRow("Pangkat", level_dict)>>

add_breakdown_rows(recs, level_dict, status_dict) ==
    IF level_dict = <<>> /\ status_dict = <<>> THEN recs
    ELSE recs \o <<BreakdownRow("Pangkat", level_dict),
                   BreakdownRow("Status", status_dict)>>

HeaderRow(level_name, name) ==
    [EmptyRow EXCEPT !.ROW_TYPE = "HEADER", !.LEVEL = level_name, !.NAME = name]

add_header_row(recs, level_name, name) ==
    Append(recs, HeaderRow(level_name, name))

\* dict[k] = dict.get(k, 0) + 1 on an insertion-ordered dict, kept as the
\* sequence of its items.
DictInc(dict, k) ==
    IF \E j \in 1..Len(dict) : dict[j].k = k
    THEN [j \in 1..Len(dict) |->
            IF dict[j].k = k THEN [dict[j] EXCEPT !.v = @ + 1] ELSE dict[j]]
    ELSE Append(dict, [k |-> k, v |-> 1])

Max(a, b) == IF a >= b THEN a ELSE b

\* The aggregator's inputs: the sorted catalog and the cleaned records (an
\* uploaded cleaned-data file; the cleaner has not run).
InputsFor(Rows, Emps) ==
    /\ structural_df \in {df \in SeqsUpTo(Rows, MaxCatalog) : IsSorted(df)}
    /\ cleaned_df \in SeqsUpTo(Emps, MaxEmployees)
    /\ master_df = <<>> /\ lookup_df = <<>> /\ cleaned_records = <<>>
    /\ emp_idx = 1 /\ cpc = "idle"
    /\ cleaned_data = NoTable

LocalsAreFresh ==
    /\ assigned_employees = {}
    /\ manning_records = <<>>
    /\ last_dir_group = "" /\ last_directorate = "" /\ last_division = ""
    /\ last_department = "" /\ last_cc = ""
    /\ cc_sum = ZeroSum /\ dept_sum = ZeroSum /\ div_sum = ZeroSum
    /\ dir_sum = ZeroSum /\ dirgrp_sum = ZeroSum
    /\ dept_level_dict = <<>> /\ dept_status_dict = <<>>
    /\ dir_level_dict = <<>> /\ dir_status_dict = <<>>
    /\ dirgrp_level_dict = <<>> /\ dirgrp_status_dict = <<>>

\* The state at the head of the for loop of a session's first run (after
\* lines 177-279): inputs read, catalog sorted, every local freshly
\* initialised.
InitFor(Rows, Emps) ==
    /\ InputsFor(Rows, Emps)
    /\ pc = "loop"
    /\ idx = 1
    /\ LocalsAreFresh
    /\ manning_table = NoTable
    /\ missing = "none" /\ error = FALSE /\ runs = 1

Init == InitFor(CatalogRow, Employee)

InitOrg == InitFor(OrgCatalogRow, OrgEmployee)

InitStd == InitFor(StdCatalogRow, OrgEmployee)

InitBrk == InitFor(BrkCatalogRow, BrkEmployee)

\* As InitFor, over catalogs one row longer, so that a group of two rows
\* can be followed by another group.
InitTree ==
    /\ structural_df \in {df \in SeqsUpTo(TreeCatalogRow, MaxCatalog + 1) : IsSorted(df)}
    /\ cleaned_df \in SeqsUpTo(OrgEmployee, MaxEmployees)
    /\ master_df = <<>> /\ lookup_df = <<>> /\ cleaned_records = <<>>
    /\ emp_idx = 1 /\ cpc = "idle"
    /\ cleaned_data = NoTable
    /\ pc = "loop"
    /\ idx = 1
    /\ LocalsAreFresh
    /\ manning_table = NoTable
    /\ missing = "none" /\ error = FALSE /\ runs = 1

\* A session in which the button has not been clicked yet.
InitSession ==
    /\ InputsFor(SessCatalogRow, OrgEmployee)
    /\ pc = "idle"
    /\ idx = 1
    /\ LocalsAreFresh
    /\ manning_table = NoTable
    /\ missing = "none" /\ error = FALSE /\ runs = 0

\* ------------------------------------------------ the aggregator's state
\* The handler's locals, gathered so that each pass of the loop body is an
\* operator from state to state.
Locals ==
    [manning_records |-> manning_records,
     assigned_employees |-> assigned_employees,
     last_dir_group |-> last_dir_group, last_directorate |-> last_directorate,
     last_division |-> last_division, last_department |-> last_department,
     last_cc |-> last_cc,
     cc_sum |-> cc_sum, dept_sum |-> dept_sum, div_sum |-> div_sum,
     dir_sum |-> dir_sum, dirgrp_sum |-> dirgrp_sum,
     dept_level_dict |-> dept_level_dict, dept_status_dict |-> dept_status_dict,
     dir_level_dict |-> dir_level_dict, dir_status_dict |-> dir_status_dict,
     dirgrp_level_dict |-> dirgrp_level_dict,
     dirgrp_status_dict |-> dirgrp_status_dict]

\* ------------------------------------ print totals for completed groups
\* Variant: a Cost Center close also restarts the Department counters and
\* breakdown maps.
CloseCostCenter_resets_department(r, s) ==
    IF s.last_cc # "" /\ r.CostCenter # s.last_cc
    THEN [s EXCEPT
            !.manning_records = add_totals_row(@, "Cost Center", s.last_cc, s.cc_sum),
            !.cc_sum = ZeroSum,
            !.dept_sum = ZeroSum,
            !.dept_level_dict = <<>>,
            !.dept_status_dict = <<>>]
    ELSE s

CloseCostCenter(r, s) ==
    IF s.last_cc # "" /\ r.CostCenter # s.last_cc
    THEN [s EXCEPT
            !.manning_records = add_totals_row(@, "Cost Center", s.last_cc, s.cc_sum),
            !.cc_sum = ZeroSum]
    ELSE s

CloseDepartment(r, s) ==
    IF s.last_department # "" /\ r.Department # s.last_department
    THEN [s EXCEPT
            !.manning_records =
                add_breakdown_rows(
                    add_totals_row(@, "Department", s.last_department, s.dept_sum),
                    s.dept_level_dict, s.dept_status_dict),
            !.dept_level_dict = <<>>,
            !.dept_status_dict = <<>>,
            !.dept_sum = ZeroSum]
    ELSE s

\* Variant: a closed Division's counters are not restarted.
CloseDivision_keeps_sum(r, s) ==
    IF s.last_division # "" /\ r.Division # s.last_division
    THEN [s EXCEPT
            !.manning_records = add_totals_row(@, "Division", s.last_division, s.div_sum)]
    ELSE s

CloseDivision(r, s) ==
    IF s.last_division # "" /\ r.Division # s.last_division
    THEN [s EXCEPT
            !.manning_records = add_totals_row(@, "Division", s.last_division, s.div_sum),
            !.div_sum = ZeroSum]
    ELSE s

CloseDirectorate(r, s) ==
    IF s.last_directorate # "" /\ r.Directorate # s.last_directorate
    THEN [s EXCEPT
            !.manning_records =
                add_breakdown_rows(
                    add_totals_row(@, "Directorate", s.last_directorate, s.dir_sum),
                    s.dir_level_dict, s.dir_status_dict),
            !.dir_level_dict = <<>>,
            !.dir_status_dict = <<>>,
            !.dir_sum = ZeroSum]
    ELSE s

CloseDirGroup(r, s) ==
    IF s.last_dir_group # "" /\ r.DepartmentGroup # s.last_dir_group
    THEN [s EXCEPT
            !.manning_records =
                add_breakdown_rows(
                    add_totals_row(@, "Directorate Group", s.last_dir_group, s.dirgrp_sum),
                    s.dirgrp_level_dict, s.dirgrp_status_dict),
            !.dirgrp_level_dict = <<>>,
            !.dirgrp_status_dict = <<>>,
            !.dirgrp_sum = ZeroSum]
    ELSE s

\* Variant: the close checks run outermost first.
ClosePass_outer_first(r, s) ==
    CloseCostCenter(r,
      CloseDepartment(r,
        CloseDivision(r,
          CloseDirectorate(r,
            CloseDirGroup(r, s)))))

ClosePass(r, s) ==
    CloseDirGroup(r,
      CloseDirectorate(r,
        CloseDivision(r,
          CloseDepartment(r,
            CloseCostCenter(r, s)))))

\* ------------------------------------------- print headers for new groups
OpenDirGroup(r, s) ==
    IF r.DepartmentGroup # s.last_dir_group
    THEN [s EXCEPT
            !.manning_records = add_header_row(@, "Directorate Group", r.DepartmentGroup),
            !.last_dir_group = r.DepartmentGroup,
            !.last_directorate = "", !.last_division = "",
            !.last_department = "", !.last_cc = ""]
    ELSE s

\* Variant: an opened level leaves the inner trackers as they are.
OpenDirectorate_keep_inner(r, s) ==
    IF r.Directorate # s.last_directorate
    THEN [s EXCEPT
            !.manning_records = add_header_row(@, "Directorate", r.Directorate),
            !.last_directorate = r.Directorate]
    ELSE s

OpenDirectorate(r, s) ==
    IF r.Directorate # s.last_directorate
    THEN [s EXCEPT
            !.manning_records = add_header_row(@, "Directorate", r.Directorate),
            !.last_directorate = r.Directorate,
            !.last_division = "", !.last_department = "", !.last_cc = ""]
    ELSE s

\* Variant: an opened Division leaves the inner trackers as they are.
OpenDivision_keep_inner(r, s) ==
    IF r.Division # s.last_division
    THEN [s EXCEPT
            !.manning_records = add_header_row(@, "Division", r.Division),
            !.last_division = r.Division]
    ELSE s

OpenDivision(r, s) ==
    IF r.Division # s.last_division
    THEN [s EXCEPT
            !.manning_records = add_header_row(@, "Division", r.Division),
            !.last_division = r.Division,
            !.last_department = "", !.last_cc = ""]
    ELSE s

OpenDepartment(r, s) ==
    IF r.Department # s.last_department
    THEN [s EXCEPT
            !.manning_records = add_header_row(@, "Department", r.Department),
            !.last_department = r.Department,
            !.last_cc = ""]
    ELSE s

OpenCostCenter(r, s) ==
    IF r.CostCenter # s.last_cc
    THEN [s EXCEPT
            !.manning_records = add_header_row(@, "Cost Center", r.CostCenter),
            !.last_cc = r.CostCenter]
    ELSE s

OpenPass(r, s) ==
    OpenCostCenter(r,
      OpenDepartment(r,
        OpenDivision(r,
          OpenDirectorate(r,
            OpenDirGroup(r, s)))))

\* ------------------------------------------------------- match employees
\* Variant: the rank is not compared.
IsMatch_any_rank(e, r, assigned) ==
    /\ e.PositionCode = r.PositionCode
    /\ e.RegNo \notin assigned

IsMatch(e, r, assigned) ==
    /\ e.PositionCode = r.PositionCode
    /\ e.PangkatLevel = r.LevelPangkat
    /\ e.RegNo \notin assigned

matching_emps(r, s) ==
    SelectSeq(cleaned_df, LAMBDA e : IsMatch(e, r, s.assigned_employees))

\* Variant: matched employees are not recorded as assigned.
MarkAssigned_none(emps, s) == s

MarkAssigned(emps, s) ==
    [s EXCEPT !.assigned_employees = @ \cup {emps[k].RegNo : k \in 1..Len(emps)}]

\* ------------------------------------------------------ calculate metrics
\* The wildcard result of both wildcard branches.
WildcardMetrics ==
    [vacant |-> STAR, excess |-> STAR, std_display |-> STAR, std_numeric |-> 0]

\* Variant: the shortfall is not floored at zero.
Metrics_unfloored(standard, actual) ==
    IF standard \in {NAN, STAR, BLANK, TEXT}
    THEN [vacant |-> STAR, excess |-> STAR, std_display |-> STAR, std_numeric |-> 0]
    ELSE [vacant |-> standard - actual,
          excess |-> Max(0, actual - standard),
          std_display |-> standard, std_numeric |-> standard]

\* Variant: a text that is not a number is not caught and counts as the
\* number its cell encoding is.
Metrics_text_as_number(standard, actual) ==
    IF standard \in {NAN, STAR, BLANK}
    THEN WildcardMetrics
    ELSE [vacant |-> Max(0, standard - actual),
          excess |-> Max(0, actual - standard),
          std_display |-> standard, std_numeric |-> standard]

\* Variant: a wildcard standard counts as a standard of zero.
Metrics_wildcard_as_zero(standard, actual) ==
    IF standard \in {NAN, STAR, BLANK, TEXT}
    THEN [vacant |-> 0, excess |-> actual, std_display |-> STAR, std_numeric |-> 0]
    ELSE [vacant |-> Max(0, standard - actual),
          excess |-> Max(0, actual - standard),
          std_display |-> standard, std_numeric |-> standard]

\* Variant: the surplus is the plain count of incumbents.
Metrics_excess_is_actual(standard, actual) ==
    IF standard \in {NAN, STAR, BLANK, TEXT}
    THEN WildcardMetrics
    ELSE [vacant |-> Max(0, standard - actual),
          excess |-> actual,
          std_display |-> standard, std_numeric |-> standard]

Metrics(standard, actual) ==
    IF standard \in {NAN, STAR, BLANK}      \* pd.isna / strip() in ['*', '']
    THEN WildcardMetrics
    ELSE IF standard = TEXT                 \* float(standard) raises
    THEN WildcardMetrics
    ELSE [vacant |-> Max(0, standard - actual),
          excess |-> Max(0, actual - standard),
          std_display |-> standard, std_numeric |-> standard]

\* ---------------------------------------------------------- update totals
\* Variant: the standard is added whatever its sign.
AddToSum_always_adds(t, m, actual) ==
    [std |-> t.std + m.std_numeric,
     act |-> t.act + actual,
     vac |-> IF m.vacant # STAR THEN t.vac + m.vacant ELSE t.vac,
     exc |-> IF m.excess # STAR THEN t.exc + m.excess ELSE t.exc]

AddToSum(t, m, actual) ==
    [std |-> IF m.std_numeric > 0 THEN t.std + m.std_numeric ELSE t.std,
     act |-> t.act + actual,
     vac |-> IF m.vacant # STAR THEN t.vac + m.vacant ELSE t.vac,
     exc |-> IF m.excess # STAR THEN t.exc + m.excess ELSE t.exc]

UpdateTotals(m, actual, s) ==
    [s EXCEPT !.cc_sum = AddToSum(@, m, actual),
              !.dept_sum = AddToSum(@, m, actual),
              !.div_sum = AddToSum(@, m, actual),
              !.dir_sum = AddToSum(@, m, actual),
              !.dirgrp_sum = AddToSum(@, m, actual)]

\* ------------------------------------------------------ update breakdowns
\* Variant: the three levels are counted whatever their names.
CountEmployee_unconditional(emp, r, s) ==
    [s EXCEPT !.dept_level_dict = DictInc(@, emp.PangkatLevel),
              !.dept_status_dict = DictInc(@, emp.Status),
              !.dir_level_dict = DictInc(@, emp.PangkatLevel),
              !.dir_status_dict = DictInc(@, emp.Status),
              !.dirgrp_level_dict = DictInc(@, emp.PangkatLevel),
              !.dirgrp_status_dict = DictInc(@, emp.Status)]

\* Variant: the Department's status map is not counted.
CountEmployee_no_dept_status(emp, r, s) ==
    LET s1 == IF r.Department # ""
              THEN [s EXCEPT !.dept_level_dict = DictInc(@, emp.PangkatLevel)]
              ELSE s
        s2 == IF r.Directorate # ""
              THEN [s1 EXCEPT !.dir_level_dict = DictInc(@, emp.PangkatLevel),
                              !.dir_status_dict = DictInc(@, emp.Status)]
              ELSE s1
    IN  IF r.DepartmentGroup # ""
        THEN [s2 EXCEPT !.dirgrp_level_dict = DictInc(@, emp.PangkatLevel),
                        !.dirgrp_status_dict = DictInc(@, emp.Status)]
        ELSE s2

\* Variant: the Department's rank map counts an employee twice.
CountEmployee_dept_rank_twice(emp, r, s) ==
    LET s1 == IF r.Department # ""
              THEN [s EXCEPT !.dept_level_dict =
                                DictInc(DictInc(@, emp.PangkatLevel), emp.PangkatLevel),
                             !.dept_status_dict = DictInc(@, emp.Status)]
              ELSE s
        s2 == IF r.Directorate # ""
              THEN [s1 EXCEPT !.dir_level_dict = DictInc(@, emp.PangkatLevel),
                              !.dir_status_dict = DictInc(@, emp.Status)]
              ELSE s1
    IN  IF r.DepartmentGroup # ""
        THEN [s2 EXCEPT !.dirgrp_level_dict = DictInc(@, emp.PangkatLevel),
                        !.dirgrp_status_dict = DictInc(@, emp.Status)]
        ELSE s2

CountEmployee(emp, r, s) ==
    LET s1 == IF r.Department # ""
              THEN [s EXCEPT !.dept_level_dict = DictInc(@, emp.PangkatLevel),
                             !.dept_status_dict = DictInc(@, emp.Status)]
              ELSE s
        s2 == IF r.Directorate # ""
              THEN [s1 EXCEPT !.dir_level_dict = DictInc(@, emp.PangkatLevel),
                              !.dir_status_dict = DictInc(@, emp.Status)]
              ELSE s1
    IN  IF r.DepartmentGroup # ""
        THEN [s2 EXCEPT !.dirgrp_level_dict = DictInc(@, emp.PangkatLevel),
                        !.dirgrp_status_dict = DictInc(@, emp.Status)]
        ELSE s2

RECURSIVE UpdateBreakdowns(_, _, _)
UpdateBreakdowns(emps, r, s) ==
    IF emps = <<>> THEN s
    ELSE UpdateBreakdowns(Tail(emps), r, CountEmployee(Head(emps), r, s))

\* ----------------------------------------------------------- row emission
BaseRecord(r, m, actual) ==
    [EmptyRow EXCEPT !.ROW_TYPE = "DATA",
                     !.PositionCode = r.PositionCode,
                     !.PangkatLevel = r.LevelPangkat,
                     !.Standard = m.std_display, !.Actual = actual,
                     !.Vacant = m.vacant, !.Excess = m.excess]

FirstRow(base, emp) ==
    [base EXCEPT !.Name = emp.Nama, !.RegNo = emp.RegNo, !.Status = emp.Status]

ContinuationRow(emp) ==
    [EmptyRow EXCEPT !.ROW_TYPE = "DATA",
                     !.Name = emp.Nama, !.RegNo = emp.RegNo, !.Status = emp.Status]

\* The no-incumbent marker (an en dash in the source).
NO_INCUMBENT == "-"

NoIncumbentRow(base) ==
    [base EXCEPT !.Name = NO_INCUMBENT]

\* Variant: every matched employee gets a full position row.
EmployeeRows_all_full(base, emps) ==
    IF Len(emps) > 0
    THEN [k \in 1..Len(emps) |-> FirstRow(base, emps[k])]
    ELSE <<NoIncumbentRow(base)>>

EmployeeRows(base, emps) ==
    IF Len(emps) > 0
    THEN [k \in 1..Len(emps) |->
            IF k = 1 THEN FirstRow(base, emps[k]) ELSE ContinuationRow(emps[k])]
    ELSE <<NoIncumbentRow(base)>>

EmitRows(r, m, emps, s) ==
    [s EXCEPT !.manning_records = @ \o EmployeeRows(BaseRecord(r, m, Len(emps)), emps)]

\* ------------------------------------------- the body of the for loop
LoopBody(r, s) ==
    LET s2 == OpenPass(r, ClosePass(r, s))
        emps == matching_emps(r, s2)
        actual == Len(emps)
        m == Metrics(r.Standard, actual)
    IN  EmitRows(r, m, emps,
          UpdateBreakdowns(emps, r,
            UpdateTotals(m, actual,
              MarkAssigned(emps, s2))))

\* ------------------------------------------------------------ final totals
\* Variant: the Division total is left out of the final totals.
FinalTotals_no_division(s) ==
    LET r1 == IF s.last_cc # ""
              THEN add_totals_row(s.manning_records, "Cost Center", s.last_cc, s.cc_sum)
              ELSE s.manning_records
        r2 == IF s.last_department # ""
              THEN add_breakdown_rows(
                       add_totals_row(r1, "Department", s.last_department, s.dept_sum),
                       s.dept_level_dict, s.dept_status_dict)
              ELSE r1
        r4 == IF s.last_directorate # ""
              THEN add_breakdown_rows(
                       add_totals_row(r2, "Directorate", s.last_directorate, s.dir_sum),
                       s.dir_level_dict, s.dir_status_dict)
              ELSE r2
    IN  IF s.last_dir_group # ""
        THEN add_breakdown_rows(
                 add_totals_row(r4, "Directorate Group", s.last_dir_group, s.dirgrp_sum),
                 s.dirgrp_level_dict, s.dirgrp_status_dict)
        ELSE r4

FinalTotals(s) ==
    LET r1 == IF s.last_cc # ""
              THEN add_totals_row(s.manning_records, "Cost Center", s.last_cc, s.cc_sum)
              ELSE s.manning_records
        r2 == IF s.last_department # ""
              THEN add_breakdown_rows(
                       add_totals_row(r1, "Department", s.last_department, s.dept_sum),
                       s.dept_level_dict, s.dept_status_dict)
              ELSE r1
        r3 == IF s.last_division # ""
              THEN add_totals_row(r2, "Division", s.last_division, s.div_sum)
              ELSE r2
        r4 == IF s.last_directorate # ""
              THEN add_breakdown_rows(
                       add_totals_row(r3, "Directorate", s.last_directorate, s.dir_sum),
                       s.dir_level_dict, s.dir_status_dict)
              ELSE r3
    IN  IF s.last_dir_group # ""
        THEN add_breakdown_rows(
                 add_totals_row(r4, "Directorate Group", s.last_dir_group, s.dirgrp_sum),
                 s.dirgrp_level_dict, s.dirgrp_status_dict)
        ELSE r4

\* ----------------------------------------------------------------- actions
SetLocals(s) ==
    /\ manning_records' = s.manning_records
    /\ assigned_employees' = s.assigned_employees
    /\ last_dir_group' = s.last_dir_group
    /\ last_directorate' = s.last_directorate
    /\ last_division' = s.last_division
    /\ last_department' = s.last_department
    /\ last_cc' = s.last_cc
    /\ cc_sum' = s.cc_sum /\ dept_sum' = s.dept_sum /\ div_sum' = s.div_sum
    /\ dir_sum' = s.dir_sum /\ dirgrp_sum' = s.dirgrp_sum
    /\ dept_level_dict' = s.dept_level_dict
    /\ dept_status_dict' = s.dept_status_dict
    /\ dir_level_dict' = s.dir_level_dict
    /\ dir_status_dict' = s.dir_status_dict
    /\ dirgrp_level_dict' = s.dirgrp_level_dict
    /\ dirgrp_status_dict' = s.dirgrp_status_dict

\* One iteration of "for _, struct_row in structural_df.iterrows()".
ProcessRow ==
    /\ pc = "loop"
    /\ idx <= Len(structural_df)
    /\ missing # "Standard"
    /\ SetLocals(LoopBody(structural_df[idx], Locals))
    /\ idx' = idx + 1
    /\ UNCHANGED <<structural_df, cleaned_df, pc, manning_table>>
    /\ UNCHANGED <<sessionVars, cleanerVars>>

\* The loop is exhausted: final totals, then the table is stored.
Finish ==
    /\ pc = "loop"
    /\ idx > Len(structural_df)
    /\ SetLocals([Locals EXCEPT !.manning_records = FinalTotals(Locals)])
    /\ manning_table' = [present |-> TRUE, rows |-> FinalTotals(Locals)]
    /\ pc' = "done"
    /\ UNCHANGED <<structural_df, cleaned_df, idx>>
    /\ UNCHANGED <<sessionVars, cleanerVars>>

Next == ProcessRow \/ Finish

\* The locals as lines 200-227 create them.
\* Variant: the assignment set outlives the run.
FreshLocals_keep_assigned ==
    [manning_records |-> <<>>,
     assigned_employees |-> assigned_employees,
     last_dir_group |-> "", last_directorate |-> "", last_division |-> "",
     last_department |-> "", last_cc |-> "",
     cc_sum |-> ZeroSum, dept_sum |-> ZeroSum, div_sum |-> ZeroSum,
     dir_sum |-> ZeroSum, dirgrp_sum |-> ZeroSum,
     dept_level_dict |-> <<>>, dept_status_dict |-> <<>>,
     dir_level_dict |-> <<>>, dir_status_dict |-> <<>>,
     dirgrp_level_dict |-> <<>>, dirgrp_status_dict |-> <<>>]

FreshLocals ==
    [manning_records |-> <<>>,
     assigned_employees |-> {},
     last_dir_group |-> "", last_directorate |-> "", last_division |-> "",
     last_department |-> "", last_cc |-> "",
     cc_sum |-> ZeroSum, dept_sum |-> ZeroSum, div_sum |-> ZeroSum,
     dir_sum |-> ZeroSum, dirgrp_sum |-> ZeroSum,
     dept_level_dict |-> <<>>, dept_status_dict |-> <<>>,
     dir_level_dict |-> <<>>, dir_status_dict |-> <<>>,
     dirgrp_level_dict |-> <<>>, dirgrp_status_dict |-> <<>>]

aggLocals ==
    <<manning_records, assigned_employees,
      last_dir_group, last_directorate, last_division, last_department, last_cc,
      cc_sum, dept_sum, div_sum, dir_sum, dirgrp_sum,
      dept_level_dict, dept_status_dict, dir_level_dict, dir_status_dict,
      dirgrp_level_dict, dirgrp_status_dict>>

\* A click on "Generate Manning Table" whose setup (lines 177-279) succeeds:
\* the input files are read again and every local is created anew.
StartRun ==
    /\ pc \in {"idle", "done", "failed"}
    /\ runs < MaxRuns
    /\ runs' = runs + 1
    /\ missing' \in MissingColumns \ {"Position Code"}
    /\ error' = FALSE
    /\ pc' = "loop"
    /\ idx' = 1
    /\ SetLocals(FreshLocals)
    /\ UNCHANGED <<structural_df, cleaned_df, manning_table, cleanerVars>>

\* A click whose setup raises: the catalog has no 'Position Code' column
\* (KeyError at line 193); the handler's except clause reports it.
FailSetup ==
    /\ pc \in {"idle", "done", "failed"}
    /\ runs < MaxRuns
    /\ runs' = runs + 1
    /\ missing' = "Position Code"
    /\ error' = TRUE
    /\ pc' = "failed"
    /\ UNCHANGED <<structural_df, cleaned_df, idx, aggLocals, manning_table,
                   cleanerVars>>

\* Variant: the rows built before the failure are stored.
FailRow_stores_partial ==
    /\ pc = "loop"
    /\ idx <= Len(structural_df)
    /\ missing = "Standard"
    /\ error' = TRUE
    /\ pc' = "failed"
    /\ manning_table' = [present |-> TRUE, rows |-> manning_records]
    /\ UNCHANGED <<structural_df, cleaned_df, idx, aggLocals,
                   missing, runs, cleanerVars>>

\* The loop body raises: the catalog has no 'Standard' column (KeyError at
\* line 284, in the first iteration); the except clause reports it and
\* line 485 is not reached.
FailRow ==
    /\ pc = "loop"
    /\ idx <= Len(structural_df)
    /\ missing = "Standard"
    /\ error' = TRUE
    /\ pc' = "failed"
    /\ UNCHANGED <<structural_df, cleaned_df, idx, aggLocals, manning_table,
                   missing, runs, cleanerVars>>

NextSession == StartRun \/ FailSetup \/ ProcessRow \/ FailRow \/ Finish

Spec == Init /\ [][Next]_vars

SpecOrg == InitOrg /\ [][Next]_vars

SpecStd == InitStd /\ [][Next]_vars

SpecBrk == InitBrk /\ [][Next]_vars

SpecTree == InitTree /\ [][Next]_vars

SpecSession == InitSession /\ [][NextSession]_vars

\* ======================================================================
\* "Generate Cleaned Data" (lines 52-134)
\* ======================================================================
\* A raw cell as read_excel delivers it: a missing cell, an integer, a
\* float with a whole value, or a text.  Texts are sequences of characters.
PyNaN == [t |-> "nan", v |-> 0, s |-> <<>>]

PyInt(n) == [t |-> "int", v |-> n, s |-> <<>>]

PyFloat(n) == [t |-> "float", v |-> n, s |-> <<>>]

PyStr(s) == [t |-> "str", v |-> 0, s |-> s]

DigitChars == <<"0", "1", "2", "3", "4", "5", "6", "7", "8", "9">>

NanText == <<"n", "a", "n">>

\* str(n) of a non-negative integer.
RECURSIVE IntText(_)
IntText(n) ==
    IF n < 10 THEN <<DigitChars[n + 1]>>
    ELSE IntText(n \div 10) \o <<DigitChars[(n % 10) + 1]>>

\* str(x)
str(x) ==
    CASE x.t = "nan" -> NanText
      [] x.t = "int" -> IntText(x.v)
      [] x.t = "float" -> IntText(x.v) \o <<".", "0">>
      [] x.t = "str" -> x.s

RECURSIVE lstrip(_)
lstrip(s) == IF s # <<>> /\ Head(s) = " " THEN lstrip(Tail(s)) ELSE s

RECURSIVE rstrip(_)
rstrip(s) ==
    IF s # <<>> /\ s[Len(s)] = " " THEN rstrip(SubSeq(s, 1, Len(s) - 1)) ELSE s

\* s.strip()
strip(s) == rstrip(lstrip(s))

\* s.split('.')[0]
RECURSIVE BeforeDot(_)
BeforeDot(s) ==
    IF s = <<>> \/ Head(s) = "." THEN <<>>
    ELSE <<Head(s)>> \o BeforeDot(Tail(s))

\* What follows the first '.' of s (empty when s has none).
AfterDot(s) == SubSeq(s, Len(BeforeDot(s)) + 2, Len(s))

IsDigits(s) ==
    \A k \in 1..Len(s) : \E d \in 1..10 : s[k] = DigitChars[d]

DigitValue(c) == (CHOOSE d \in 1..10 : DigitChars[d] = c) - 1

RECURSIVE DigitsValue(_)
DigitsValue(s) ==
    IF s = <<>> THEN 0
    ELSE 10 * DigitsValue(SubSeq(s, 1, Len(s) - 1)) + DigitValue(s[Len(s)])

\* float() accepts a text that, stripped, is digits, digits '.' digits,
\* digits '.' or '.' digits.
IsFloatText(s) ==
    LET u == strip(s)
        a == BeforeDot(u)
        b == AfterDot(u)
    IN  /\ IsDigits(a) /\ IsDigits(b)
        /\ (a # <<>> \/ b # <<>>)

\* int(float(x)): [ok |-> TRUE, v |-> the integer part], or ok = FALSE when
\* float() raises ValueError.
IntOfFloat(x) ==
    IF x.t \in {"int", "float"} THEN [ok |-> TRUE, v |-> x.v]
    ELSE IF x.t = "str" /\ IsFloatText(x.s)
    THEN [ok |-> TRUE, v |-> DigitsValue(BeforeDot(strip(x.s)))]
    ELSE [ok |-> FALSE, v |-> 0]

\* s.zfill(width)
RECURSIVE zfill(_, _)
zfill(s, width) == IF Len(s) >= width THEN s ELSE zfill(<<"0">> \o s, width)

\* Lines 76-78: the catalog's Position Code as the cleaner keys it.
CatalogCode(x) ==
    IF x.t # "nan" /\ strip(str(x)) \notin {<<>>, NanText}
    THEN strip(str(x))
    ELSE <<>>

\* Lines 81-90: the roster's Position Code as the cleaner keys it;
\* ok = FALSE when line 90 raises.
RosterCode(raw_pos_code) ==
    IF raw_pos_code.t = "nan" \/ strip(str(raw_pos_code)) \in {<<>>, NanText}
    THEN [ok |-> TRUE, code |-> <<>>]
    ELSE LET pos_code == strip(str(raw_pos_code))
             n == IntOfFloat(raw_pos_code)
         IN  IF raw_pos_code # PyStr(pos_code)
             THEN IF n.ok
                  THEN [ok |-> TRUE,
                        code |-> zfill(IntText(n.v),
                                       Len(BeforeDot(str(raw_pos_code))))]
                  ELSE [ok |-> FALSE, code |-> <<>>]
             ELSE [ok |-> TRUE, code |-> pos_code]

\* Lines 59-60: astype(str).str.strip() on the two filter columns.
StrippedRow(row) ==
    [row EXCEPT !.RegNo = strip(str(@)), !.Nama = strip(str(@))]

\* Variant: the zero placeholder also rules out a name.
IsValidEmployee_zero_name(row) ==
    /\ row.RegNo \notin {<<>>, <<"0">>, NanText}
    /\ row.Nama \notin {<<>>, <<"0">>, NanText}

\* Lines 62-68.
IsValidEmployee(row) ==
    /\ row.RegNo # <<>>
    /\ row.RegNo # <<"0">>
    /\ row.RegNo # NanText
    /\ row.Nama # <<>>
    /\ row.Nama # NanText

valid_employees ==
    SelectSeq([k \in 1..Len(master_df) |-> StrippedRow(master_df[k])],
              IsValidEmployee)

\* Line 93: the catalog rows whose key equals pos_code, in catalog order.
struct_match(pos_code) ==
    SelectSeq(lookup_df, LAMBDA c : CatalogCode(c.PositionCode) = pos_code)

NoResolved ==
    [PositionDescription |-> "", PangkatStruktural |-> "", Directorate |-> "",
     Division |-> "", Department |-> "", CostCenter |-> "", DirGroup |-> ""]

ResolvedFrom(c) ==
    [PositionDescription |-> c.PositionName, PangkatStruktural |-> c.LevelPangkat,
     Directorate |-> c.Directorate, Division |-> c.Division,
     Department |-> c.Department, CostCenter |-> c.CostCenter,
     DirGroup |-> c.DepartmentGroup]

\* Variant: the last matching catalog row is taken.
Resolve_last_match(pos_code) ==
    IF pos_code # <<>> /\ Len(struct_match(pos_code)) > 0
    THEN ResolvedFrom(struct_match(pos_code)[Len(struct_match(pos_code))])
    ELSE NoResolved

\* Lines 92-106.
Resolve(pos_code) ==
    IF pos_code # <<>>
    THEN IF Len(struct_match(pos_code)) > 0
         THEN ResolvedFrom(struct_match(pos_code)[1])
         ELSE NoResolved
    ELSE NoResolved

\* Lines 108-126 (the columns the loop computes or the aggregator reads).
CleanedRecord(emp, pos_code) ==
    [Nama |-> emp.Nama, RegNo |-> emp.RegNo, PositionCode |-> pos_code,
     PangkatLevel |-> emp.PangkatLevel, Status |-> emp.Status,
     Resolved |-> Resolve(pos_code)]

\* What the aggregator's variables hold while the cleaner runs.
AggregatorIdle ==
    /\ structural_df = <<>> /\ cleaned_df = <<>>
    /\ pc = "idle" /\ idx = 1
    /\ LocalsAreFresh
    /\ manning_table = NoTable
    /\ runs = 0

aggVars == <<structural_df, cleaned_df, pc, idx, aggLocals, manning_table, runs>>

\* Input families of the cleaner.
\* Family 5 (SpecFilter): rosters whose registration ID and name take every
\* kind of value the filter tells apart; no position codes.
FilterRegNos ==
    {PyNaN, PyInt(0), PyFloat(0), PyStr(<<" ">>), PyStr(<<"E", "1">>),
     PyStr(<<"E", "1", " ">>)}

FilterNames == {PyNaN, PyInt(0), PyStr(<<" ">>), PyStr(<<" ", "N">>)}

FilterRosterRow ==
    [RegNo : FilterRegNos, Nama : FilterNames, PositionCode : {PyNaN},
     PangkatLevel : OrgRanks, Status : Statuses]

\* Family 6 (SpecCleaner): valid roster rows whose position code takes every
\* kind of value the normalisation tells apart, over catalogs with the same
\* kinds of code.
RosterRawCodes ==
    {PyNaN, PyInt(5), PyFloat(5), PyStr(<<" ", "5">>), PyStr(<<"A", " ">>)}

CatalogRawCodes ==
    {PyInt(5), PyFloat(5), PyStr(<<"0", "5">>), PyStr(<<" ", "5">>)}

LookupRosterRow ==
    [RegNo : {PyStr(<<"E", "1">>)}, Nama : {PyStr(<<"N">>)},
     PositionCode : RosterRawCodes, PangkatLevel : OrgRanks, Status : Statuses]

LookupCatalogRow ==
    [PositionCode : CatalogRawCodes, PositionName : {"P"},
     LevelPangkat : Ranks, DepartmentGroup : DirGroupNames,
     Directorate : DirectorateNames, Division : DivisionNames,
     Department : DepartmentNames, CostCenter : CostCenterNames \ {"B"}]

\* The cleaner's handler at line 54, its input files uploaded.
InitCleanerFor(Rows, Catalog, Missing) ==
    /\ master_df \in SeqsUpTo(Rows, MaxEmployees)
    /\ lookup_df \in SeqsUpTo(Catalog, MaxCatalog)
    /\ missing \in Missing
    /\ cleaned_records = <<>>
    /\ emp_idx = 1
    /\ cpc = "start"
    /\ cleaned_data = NoTable
    /\ error = FALSE
    /\ AggregatorIdle

InitFilter == InitCleanerFor(FilterRosterRow, {}, {"none", "Reg. No."})

InitCleaner == InitCleanerFor(LookupRosterRow, LookupCatalogRow, {"none"})

\* Lines 55-78: the inputs are read, the roster is filtered, the catalog's
\* codes are keyed.
CleanSetup ==
    /\ cpc = "start"
    /\ missing # "Reg. No."
    /\ cpc' = "loop"
    /\ emp_idx' = 1
    /\ cleaned_records' = <<>>
    /\ UNCHANGED <<master_df, lookup_df, cleaned_data, sessionVars, aggVars>>

\* Line 59 raises KeyError: the roster has no 'Reg. No.' column.
CleanFailSetup ==
    /\ cpc = "start"
    /\ missing = "Reg. No."
    /\ cpc' = "failed"
    /\ error' = TRUE
    /\ UNCHANGED <<master_df, lookup_df, cleaned_records, emp_idx, cleaned_data,
                   missing, aggVars>>

\* One iteration of "for _, emp in valid_employees.iterrows()".
CleanRow ==
    /\ cpc = "loop"
    /\ emp_idx <= Len(valid_employees)
    /\ LET emp == valid_employees[emp_idx]
           rc == RosterCode(emp.PositionCode)
       IN  /\ rc.ok
           /\ cleaned_records' = Append(cleaned_records, CleanedRecord(emp, rc.code))
    /\ emp_idx' = emp_idx + 1
    /\ UNCHANGED <<master_df, lookup_df, cpc, cleaned_data, sessionVars, aggVars>>

\* Variant: the records built before the failure are stored.
CleanFailRow_stores_partial ==
    /\ cpc = "loop"
    /\ emp_idx <= Len(valid_employees)
    /\ ~RosterCode(valid_employees[emp_idx].PositionCode).ok
    /\ cpc' = "failed"
    /\ error' = TRUE
    /\ cleaned_data' = [present |-> TRUE, rows |-> cleaned_records]
    /\ UNCHANGED <<master_df, lookup_df, cleaned_records, emp_idx,
                   missing, aggVars>>

\* Line 90 raises ValueError in an iteration; the except clause (131-134)
\* reports it and line 128 is not reached.
CleanFailRow ==
    /\ cpc = "loop"
    /\ emp_idx <= Len(valid_employees)
    /\ ~RosterCode(valid_employees[emp_idx].PositionCode).ok
    /\ cpc' = "failed"
    /\ error' = TRUE
    /\ UNCHANGED <<master_df, lookup_df, cleaned_records, emp_idx, cleaned_data,
                   missing, aggVars>>

\* Line 128: the loop is exhausted and the records are stored.
CleanFinish ==
    /\ cpc = "loop"
    /\ emp_idx > Len(valid_employees)
    /\ cleaned_data' = [present |-> TRUE, rows |-> cleaned_records]
    /\ cpc' = "done"
    /\ UNCHANGED <<master_df, lookup_df, cleaned_records, emp_idx,
                   sessionVars, aggVars>>

NextFilter == CleanSetup \/ CleanFailSetup \/ CleanRow \/ CleanFinish

NextCleaner == CleanSetup \/ CleanRow \/ CleanFailRow \/ CleanFinish

SpecFilter == InitFilter /\ [][NextFilter]_vars

SpecCleaner == InitCleaner /\ [][NextCleaner]_vars

\* ======================================================================
\* Generate Manning Table: position-code normalisation (lines 180-197)
\* ======================================================================
HasDot(s) == \E k \in 1..Len(s) : s[k] = "."

\* Variant: a text with a decimal point is cut at the point, never parsed.
clean_position_code_no_parse(x) ==
    IF x.t = "nan" \/ strip(str(x)) \in {<<>>, NanText}
    THEN <<>>
    ELSE LET s == strip(str(x))
         IN  IF HasDot(s) THEN BeforeDot(s) ELSE s

clean_position_code(x) ==
    IF x.t = "nan" \/ strip(str(x)) \in {<<>>, NanText}
    THEN <<>>
    ELSE LET s == strip(str(x))
         IN  IF HasDot(s)
             THEN IF IntOfFloat(PyStr(s)).ok      \* try: str(int(float(s)))
                  THEN IntText(IntOfFloat(PyStr(s)).v)
                  ELSE BeforeDot(s)               \* except: s.split('.')[0]
             ELSE s

\* Family 8 (SpecNormalize): the two input tables as read, their Position
\* Code cells taking every kind of value the normalizer tells apart.
NormCatalogCodes ==
    {PyNaN, PyStr(<<" ">>), PyStr(NanText), PyInt(5), PyFloat(5),
     PyStr(<<"0", "5">>), PyStr(<<" ", "0", "5", ".", "9">>),
     PyStr(<<"1", ".", "2", ".", "3">>), PyStr(<<"A", ".", "1">>),
     PyStr(<<" ", "A", " ">>), PyStr(<<".", "5">>)}

NormRosterCodes == {PyNaN, PyFloat(5), PyStr(<<"0", "5", ".", "0">>)}

NormCatalogRow ==
    [PositionCode : NormCatalogCodes, LevelPangkat : {PyStr(<<"I", " ">>)}]

NormRosterRow ==
    [PositionCode : NormRosterCodes, PangkatLevel : {PyStr(<<" ", "I">>)}]

\* The handler after lines 177-178: both tables read, nothing normalised.
InitNormalize ==
    /\ structural_df \in SeqsUpTo(NormCatalogRow, MaxCatalog) \ {<<>>}
    /\ cleaned_df \in SeqsUpTo(NormRosterRow, MaxEmployees)
    /\ pc = "read"
    /\ idx = 1
    /\ LocalsAreFresh
    /\ manning_table = NoTable
    /\ missing = "none" /\ error = FALSE /\ runs = 1
    /\ master_df = <<>> /\ lookup_df = <<>> /\ cleaned_records = <<>>
    /\ emp_idx = 1 /\ cpc = "idle"
    /\ cleaned_data = NoTable

\* Lines 193-194: the catalog's Position Code and Level/Pangkat columns.
NormalizeCatalog ==
    /\ pc = "read"
    /\ structural_df' =
        [k \in 1..Len(structural_df) |->
            [PositionCode |-> clean_position_code(structural_df[k].PositionCode),
             LevelPangkat |-> strip(str(structural_df[k].LevelPangkat))]]
    /\ pc' = "catalog"
    /\ UNCHANGED <<cleaned_df, idx, aggLocals, manning_table, sessionVars,
                   cleanerVars>>

\* Lines 196-197: the roster's Position Code and Pangkat/Level columns.
NormalizeRoster ==
    /\ pc = "catalog"
    /\ cleaned_df' =
        [k \in 1..Len(cleaned_df) |->
            [PositionCode |-> clean_position_code(cleaned_df[k].PositionCode),
             PangkatLevel |-> strip(str(cleaned_df[k].PangkatLevel))]]
    /\ pc' = "normalized"
    /\ UNCHANGED <<structural_df, idx, aggLocals, manning_table, sessionVars,
                   cleanerVars>>

NextNormalize == NormalizeCatalog \/ NormalizeRoster

SpecNormalize == InitNormalize /\ [][NextNormalize]_vars

\* ======================================================================
\* One session with both handlers (lines 13-17, 52-134, 168-491)
\* ======================================================================
\* Family 10 (SpecFrame): one catalog file and one roster file, uploaded
\* once; the stored cleaned data is the aggregator's roster (no cleaned
\* file is uploaded).  Position codes are texts: '5.0' is keyed as it is by
\* the cleaner and normalised to '5' by the aggregator, 'A ' makes the
\* cleaner fail, '05' sorts before '5'.
FrameCatalogCodes == {PyStr(<<"5", ".", "0">>), PyStr(<<"0", "5">>)}

FrameRosterCodes == {PyStr(<<"5", ".", "0">>), PyStr(<<"A", " ">>)}

FrameCatalogRow ==
    [PositionCode : FrameCatalogCodes, PositionName : {"P"},
     LevelPangkat : OrgRanks, Standard : OrgStandards,
     DepartmentGroup : DirGroupNames, Directorate : DirectorateNames,
     Division : DivisionNames, Department : DepartmentNames,
     CostCenter : OrgCostCenterNames]

FrameRosterRow ==
    [RegNo : {PyStr(<<"E", "1">>)}, Nama : {PyStr(<<"N">>)},
     PositionCode : FrameRosterCodes, PangkatLevel : OrgRanks, Status : Statuses]

\* Clicks on either button in one session.
MaxClicks == MaxRuns + 1

\* Lines 13-17: a new session; both files uploaded, no button clicked.
InitFrame ==
    /\ master_df \in SeqsUpTo(FrameRosterRow, MaxEmployees)
    /\ lookup_df \in SeqsUpTo(FrameCatalogRow, MaxCatalog)
    /\ cleaned_data = NoTable
    /\ manning_table = NoTable
    /\ cleaned_records = <<>> /\ emp_idx = 1 /\ cpc = "idle"
    /\ structural_df = <<>> /\ cleaned_df = <<>>
    /\ pc = "idle" /\ idx = 1
    /\ LocalsAreFresh
    /\ missing = "none" /\ error = FALSE /\ runs = 0

\* Ascending order of the characters of a position code, as Python
\* compares them.
CharOrder == <<" ", ".">> \o DigitChars \o <<"A">>

CharOrd(c) == CHOOSE k \in 1..Len(CharOrder) : CharOrder[k] = c

\* s < t for two texts.
RECURSIVE TextLess(_, _)
TextLess(s, t) ==
    IF t = <<>> THEN FALSE
    ELSE IF s = <<>> THEN TRUE
    ELSE IF CharOrd(Head(s)) < CharOrd(Head(t)) THEN TRUE
    ELSE IF CharOrd(Head(s)) > CharOrd(Head(t)) THEN FALSE
    ELSE TextLess(Tail(s), Tail(t))

PathKey(r) ==
    <<Ord(r.DepartmentGroup), Ord(r.Directorate), Ord(r.Division),
      Ord(r.Department), Ord(r.CostCenter)>>

\* a sorts strictly before b (lines 203-206, position codes being texts).
RowBefore(a, b) ==
    IF PathKey(a) # PathKey(b) THEN ~LexLeq(PathKey(b), PathKey(a), 1)
    ELSE IF a.PositionCode # b.PositionCode
    THEN TextLess(a.PositionCode, b.PositionCode)
    ELSE Ord(a.LevelPangkat) < Ord(b.LevelPangkat)

RECURSIVE InsertRow(_, _)
InsertRow(row, sorted) ==
    IF sorted = <<>> THEN <<row>>
    ELSE IF RowBefore(row, Head(sorted)) THEN <<row>> \o sorted
    ELSE <<Head(sorted)>> \o InsertRow(row, Tail(sorted))

RECURSIVE sort_values(_)
sort_values(df) ==
    IF df = <<>> THEN <<>>
    ELSE InsertRow(df[Len(df)], sort_values(SubSeq(df, 1, Len(df) - 1)))

\* Lines 177, 193-194, 203-206: the catalog as the loop reads it.
PreparedCatalog ==
    sort_values(
        [k \in 1..Len(lookup_df) |->
            [DepartmentGroup |-> lookup_df[k].DepartmentGroup,
             Directorate |-> lookup_df[k].Directorate,
             Division |-> lookup_df[k].Division,
             Department |-> lookup_df[k].Department,
             CostCenter |-> lookup_df[k].CostCenter,
             PositionCode |-> clean_position_code(lookup_df[k].PositionCode),
             LevelPangkat |-> lookup_df[k].LevelPangkat,
             Standard |-> lookup_df[k].Standard]])

\* Lines 178, 196-197: a copy of the stored cleaned data, its position
\* codes normalised.
PreparedRoster ==
    [k \in 1..Len(cleaned_data.rows) |->
        [cleaned_data.rows[k] EXCEPT
            !.PositionCode = clean_position_code(PyStr(@))]]

\* No handler is running (Streamlit runs one script run at a time).
NoRunInProgress == pc \in {"idle", "done", "failed"} /\ cpc \in {"idle", "done", "failed"}

\* Line 52: a click on "Generate Cleaned Data"; the handler starts.
ClickGenerateCleaned ==
    /\ NoRunInProgress
    /\ runs < MaxClicks
    /\ runs' = runs + 1
    /\ cpc' = "start"
    /\ missing' \in {"none", "Reg. No."}
    /\ error' = FALSE
    /\ UNCHANGED <<master_df, lookup_df, cleaned_records, emp_idx, cleaned_data,
                   structural_df, cleaned_df, pc, idx, aggLocals, manning_table>>

\* Variant: the roster is the stored table itself, not a copy of it.
StartRunStored_aliases ==
    /\ NoRunInProgress
    /\ cleaned_data.present
    /\ runs < MaxClicks
    /\ runs' = runs + 1
    /\ missing' \in {"none", "Standard"}
    /\ error' = FALSE
    /\ structural_df' = PreparedCatalog
    /\ cleaned_df' = PreparedRoster
    /\ cleaned_data' = [cleaned_data EXCEPT !.rows = PreparedRoster]
    /\ pc' = "loop"
    /\ idx' = 1
    /\ SetLocals(FreshLocals)
    /\ UNCHANGED <<master_df, lookup_df, cleaned_records, emp_idx, cpc,
                   manning_table>>

\* Lines 168-279: a click on "Generate Manning Table" with stored cleaned
\* data whose setup succeeds.
StartRunStored ==
    /\ NoRunInProgress
    /\ cleaned_data.present
    /\ runs < MaxClicks
    /\ runs' = runs + 1
    /\ missing' \in {"none", "Standard"}
    /\ error' = FALSE
    /\ structural_df' = PreparedCatalog
    /\ cleaned_df' = PreparedRoster
    /\ pc' = "loop"
    /\ idx' = 1
    /\ SetLocals(FreshLocals)
    /\ UNCHANGED <<manning_table, cleanerVars>>

\* A click whose setup raises (KeyError at line 193).
FailSetupStored ==
    /\ NoRunInProgress
    /\ cleaned_data.present
    /\ runs < MaxClicks
    /\ runs' = runs + 1
    /\ missing' = "Position Code"
    /\ error' = TRUE
    /\ pc' = "failed"
    /\ UNCHANGED <<structural_df, cleaned_df, idx, aggLocals, manning_table,
                   cleanerVars>>

NextFrame ==
    \/ ClickGenerateCleaned \/ CleanSetup \/ CleanFailSetup
    \/ CleanRow \/ CleanFailRow \/ CleanFinish
    \/ StartRunStored \/ FailSetupStored
    \/ ProcessRow \/ FailRow \/ Finish

SpecFrame == InitFrame /\ [][NextFrame]_vars

\* ======================================================================
\* Properties
\* ======================================================================
\* The five levels, outermost first, with the handler's trackers and sums
\* and a catalog row's values in the same order.
LevelNames ==
    <<"Directorate Group", "Directorate", "Division", "Department", "Cost Center">>

Depth(level_name) == CHOOSE k \in 1..5 : LevelNames[k] = level_name

Trackers ==
    <<last_dir_group, last_directorate, last_division, last_department, last_cc>>

Sums == <<dirgrp_sum, dir_sum, div_sum, dept_sum, cc_sum>>

RowPath(r) ==
    <<r.DepartmentGroup, r.Directorate, r.Division, r.Department, r.CostCenter>>

BreakdownLevels == {"Department", "Directorate", "Directorate Group"}

\* The rows a step appends to manning_records.
NewRows ==
    SubSeq(manning_records', Len(manning_records) + 1, Len(manning_records'))

\* A step that runs the loop body for structural_df[idx].
RowStep == pc = "loop" /\ idx <= Len(structural_df) /\ idx' = idx + 1

\* A step that runs the final totals.
FinishStep == pc = "loop" /\ pc' = "done"

IsPositionRow(row) == row.ROW_TYPE = "DATA" /\ row.Actual # BLANK

\* Index of the last HEADER of (level, name) before row t, 0 if none.
HeaderBefore(recs, t, level_name, name) ==
    LET H == {h \in 1..(t - 1) : /\ recs[h].ROW_TYPE = "HEADER"
                                 /\ recs[h].LEVEL = level_name
                                 /\ recs[h].NAME = name}
    IN  IF H = {} THEN 0 ELSE CHOOSE h \in H : \A g \in H : g <= h

\* Sum of vals[k] for lo < k < hi.
RECURSIVE SumBetween(_, _, _)
SumBetween(vals, lo, hi) ==
    IF lo + 1 >= hi THEN 0
    ELSE vals[lo + 1] + SumBetween(vals, lo + 1, hi)

\* Per output row: the Actual of a position row, 0 for any other row.
ActualOf(recs) ==
    [k \in 1..Len(recs) |-> IF IsPositionRow(recs[k]) THEN recs[k].Actual ELSE 0]

\* Per output row: max(0, standard - actual) of a position row with a
\* numeric standard, 0 for any other row.
ShortfallOf(recs) ==
    [k \in 1..Len(recs) |->
        IF IsPositionRow(recs[k]) /\ recs[k].Standard # STAR
        THEN Max(0, recs[k].Standard - recs[k].Actual)
        ELSE 0]

\* C1: every TOTAL row for level L and name N carries Actual equal to the
\* sum of Actual over exactly the DATA rows between that group's HEADER and
\* the TOTAL row, and Vacant equal to the sum of max(0, standard - actual)
\* over those rows, wildcard rows excluded.
C1_TotalCoversOwnRun ==
    \A t \in 1..Len(manning_records) :
        manning_records[t].ROW_TYPE = "TOTAL" =>
            LET row == manning_records[t]
                h == HeaderBefore(manning_records, t, row.LEVEL, row.NAME)
            IN  /\ h > 0
                /\ row.Actual = SumBetween(ActualOf(manning_records), h, t)
                /\ row.Vacant = SumBetween(ShortfallOf(manning_records), h, t)

\* C2: no registration ID appears in more than one DATA or continuation
\* row of the output.
C2_RegNoAtMostOnce ==
    \A a, b \in 1..Len(manning_records) :
        /\ a < b
        /\ manning_records[a].ROW_TYPE = "DATA"
        /\ manning_records[b].ROW_TYPE = "DATA"
        /\ manning_records[a].RegNo # ""
        => manning_records[a].RegNo # manning_records[b].RegNo

\* What one position row adds to a level's four counters.
OwnContribution(row) ==
    [std |-> IF row.Standard > 0 THEN row.Standard ELSE 0,
     act |-> row.Actual,
     vac |-> IF row.Vacant = STAR THEN 0 ELSE row.Vacant,
     exc |-> IF row.Excess = STAR THEN 0 ELSE row.Excess]

\* C3: when a catalog row changes the value at an outer level, every inner
\* level whose tracker is non-empty is closed in that step: its TOTAL row is
\* emitted and its counters restart from zero, so that after the step they
\* hold this row's contribution only.
C3_OuterChangeClosesInner ==
    [][RowStep =>
        LET r == structural_df[idx]
        IN  \A L \in 2..5 :
                (/\ Trackers[L] # ""
                 /\ \E O \in 1..(L - 1) : RowPath(r)[O] # Trackers[O])
                => /\ \E k \in 1..Len(NewRows) :
                        /\ NewRows[k].ROW_TYPE = "TOTAL"
                        /\ NewRows[k].LEVEL = LevelNames[L]
                        /\ NewRows[k].NAME = Trackers[L]
                   /\ \E k \in 1..Len(NewRows) :
                        /\ IsPositionRow(NewRows[k])
                        /\ Sums[L]' = OwnContribution(NewRows[k])
      ]_vars

\* C4 (as stated): a change at any level re-emits the HEADER of every
\* strictly inner level for the new row, whatever the inner values are.
C4_InnerHeadersAlways ==
    [][RowStep /\ idx > 1 =>
        LET r == structural_df[idx]
        IN  \A L \in 2..5 :
                (\E O \in 1..(L - 1) : RowPath(r)[O] # Trackers[O])
                => \E k \in 1..Len(NewRows) :
                        NewRows[k] = HeaderRow(LevelNames[L], RowPath(r)[L])
      ]_vars

\* C4 (amended): a change at any level re-emits, for the new row, the HEADER
\* of every strictly inner level whose value in the new row is non-empty,
\* also when that value is the one the previous row had; an inner level
\* whose value is blank gets no HEADER.
C4_InnerHeadersReemitted ==
    [][RowStep /\ idx > 1 =>
        LET r == structural_df[idx]
        IN  \A L \in 2..5 :
                (\E O \in 1..(L - 1) : RowPath(r)[O] # Trackers[O])
                => ((RowPath(r)[L] # "")
                    <=> \E k \in 1..Len(NewRows) :
                            /\ NewRows[k].ROW_TYPE = "HEADER"
                            /\ NewRows[k].LEVEL = LevelNames[L]
                            /\ NewRows[k].NAME = RowPath(r)[L])
      ]_vars

\* C4 witness: the Directorate changed between the two rows processed last
\* while the Department kept its non-empty value, and the output holds two
\* HEADER rows for that Department.
C4_Witness ==
    /\ idx >= 3
    /\ structural_df[idx - 2].DepartmentGroup = structural_df[idx - 1].DepartmentGroup
    /\ structural_df[idx - 2].Directorate # structural_df[idx - 1].Directorate
    /\ structural_df[idx - 2].Department = structural_df[idx - 1].Department
    /\ structural_df[idx - 1].Department # ""
    /\ Cardinality({k \in 1..Len(manning_records) :
            manning_records[k] =
                HeaderRow("Department", structural_df[idx - 1].Department)}) = 2

\* C5: every BREAKDOWN row is either a rank ("Pangkat") breakdown placed
\* immediately after a TOTAL row of level Department, Directorate or
\* Directorate Group, or a status breakdown placed immediately after a rank
\* breakdown; none follows a Division or Cost Center TOTAL.
C5_BreakdownPlacement ==
    \A k \in 1..Len(manning_records) :
        manning_records[k].ROW_TYPE = "BREAKDOWN" =>
            /\ k > 1
            /\ \/ /\ manning_records[k].KIND = "Pangkat"
                  /\ manning_records[k - 1].ROW_TYPE = "TOTAL"
                  /\ manning_records[k - 1].LEVEL \in BreakdownLevels
               \/ /\ manning_records[k].KIND = "Status"
                  /\ manning_records[k - 1].ROW_TYPE = "BREAKDOWN"
                  /\ manning_records[k - 1].KIND = "Pangkat"

\* C5 witness: a finished table that holds a rank breakdown right after a
\* Department TOTAL and a status breakdown right after it.
C5_Witness ==
    /\ pc = "done"
    /\ \E k \in 1..(Len(manning_records) - 2) :
        /\ manning_records[k].ROW_TYPE = "TOTAL"
        /\ manning_records[k].LEVEL = "Department"
        /\ manning_records[k + 1].KIND = "Pangkat"
        /\ manning_records[k + 2].KIND = "Status"

\* C6 (as stated): every close of a Department, Directorate or
\* Directorate-Group group emits exactly two BREAKDOWN rows, rank then
\* status: in the finished table each TOTAL row of those levels is followed
\* by a rank breakdown and a status breakdown.
C6_AlwaysTwoBreakdownRows ==
    pc = "done" =>
        \A t \in 1..Len(manning_records) :
            (/\ manning_records[t].ROW_TYPE = "TOTAL"
             /\ manning_records[t].LEVEL \in BreakdownLevels)
            => /\ t + 2 <= Len(manning_records)
               /\ manning_records[t + 1].ROW_TYPE = "BREAKDOWN"
               /\ manning_records[t + 1].KIND = "Pangkat"
               /\ manning_records[t + 2].ROW_TYPE = "BREAKDOWN"
               /\ manning_records[t + 2].KIND = "Status"

\* The breakdown maps of a level, as they stand before a step.
LevelDictOf(level_name) ==
    IF level_name = "Department" THEN dept_level_dict
    ELSE IF level_name = "Directorate" THEN dir_level_dict
    ELSE dirgrp_level_dict

StatusDictOf(level_name) ==
    IF level_name = "Department" THEN dept_status_dict
    ELSE IF level_name = "Directorate" THEN dir_status_dict
    ELSE dirgrp_status_dict

IsBreakdownAt(recs, k) == k <= Len(recs) /\ recs[k].ROW_TYPE = "BREAKDOWN"

\* C6 (amended): every close of a Department, Directorate or
\* Directorate-Group group, at a boundary or in the final flush, emits no
\* BREAKDOWN row when both breakdown maps of the level are empty, and
\* otherwise exactly two: the rank breakdown, then the status breakdown,
\* each listing the level's map.
C6_ZeroOrTwoBreakdownRows ==
    [][\A t \in 1..Len(NewRows) :
        (NewRows[t].ROW_TYPE = "TOTAL" /\ NewRows[t].LEVEL \in BreakdownLevels)
        => LET ld == LevelDictOf(NewRows[t].LEVEL)
               sd == StatusDictOf(NewRows[t].LEVEL)
           IN  IF ld = <<>> /\ sd = <<>>
               THEN ~IsBreakdownAt(NewRows, t + 1)
               ELSE /\ t + 2 <= Len(NewRows)
                    /\ NewRows[t + 1].ROW_TYPE = "BREAKDOWN"
                    /\ NewRows[t + 1].KIND = "Pangkat"
                    /\ NewRows[t + 1].ITEMS = ld
                    /\ NewRows[t + 2].ROW_TYPE = "BREAKDOWN"
                    /\ NewRows[t + 2].KIND = "Status"
                    /\ NewRows[t + 2].ITEMS = sd
                    /\ ~IsBreakdownAt(NewRows, t + 3)
      ]_vars

\* C6 witness: a finished table in which one Department close carries its
\* two BREAKDOWN rows and another Department close carries none.
C6_Witness ==
    /\ pc = "done"
    /\ \E t, u \in 1..Len(manning_records) :
        /\ manning_records[t].ROW_TYPE = "TOTAL"
        /\ manning_records[t].LEVEL = "Department"
        /\ IsBreakdownAt(manning_records, t + 1)
        /\ IsBreakdownAt(manning_records, t + 2)
        /\ manning_records[u].ROW_TYPE = "TOTAL"
        /\ manning_records[u].LEVEL = "Department"
        /\ ~IsBreakdownAt(manning_records, u + 1)

\* Emission phase of a row kind within one catalog row's output.
Phase(row) ==
    IF row.ROW_TYPE \in {"TOTAL", "BREAKDOWN"} THEN 1
    ELSE IF row.ROW_TYPE = "HEADER" THEN 2
    ELSE 3

\* C7: the rows one catalog row causes come in the order: TOTAL/BREAKDOWN
\* rows of the closing groups from Cost Center outwards to Directorate
\* Group, then HEADER rows of the opening groups from Directorate Group
\* inwards to Cost Center, then the DATA row(s) of the position; no TOTAL
\* follows a HEADER and no HEADER follows a DATA row.
C7_EmissionOrder ==
    [][RowStep =>
        /\ Len(NewRows) >= 1
        /\ NewRows[Len(NewRows)].ROW_TYPE = "DATA"
        /\ \A a, b \in 1..Len(NewRows) :
            a < b =>
                /\ Phase(NewRows[a]) <= Phase(NewRows[b])
                /\ (NewRows[a].ROW_TYPE = "TOTAL" /\ NewRows[b].ROW_TYPE = "TOTAL")
                    => Depth(NewRows[a].LEVEL) > Depth(NewRows[b].LEVEL)
                /\ (NewRows[a].ROW_TYPE = "HEADER" /\ NewRows[b].ROW_TYPE = "HEADER")
                    => Depth(NewRows[a].LEVEL) < Depth(NewRows[b].LEVEL)
      ]_vars

\* C7 witness: the catalog row processed last closed two levels, opened two
\* levels and wrote its DATA row: the output ends with TOTAL Department,
\* TOTAL Division, HEADER Division, ..., DATA.
C7_Witness ==
    /\ pc = "loop"
    /\ idx >= 3
    /\ \E k \in 1..(Len(manning_records) - 3) :
        /\ manning_records[k].ROW_TYPE = "TOTAL"
        /\ manning_records[k].LEVEL = "Department"
        /\ manning_records[k + 1].ROW_TYPE = "TOTAL"
        /\ manning_records[k + 1].LEVEL = "Division"
        /\ manning_records[k + 2].ROW_TYPE = "HEADER"
        /\ manning_records[k + 2].LEVEL = "Division"
        /\ manning_records[k + 3].ROW_TYPE = "HEADER"
        /\ manning_records[Len(manning_records)].ROW_TYPE = "DATA"

\* The levels, innermost first, whose tracker is non-empty.
OpenLevelsInnerFirst ==
    SelectSeq(<<5, 4, 3, 2, 1>>, LAMBDA L : Trackers[L] # "")

\* Every HEADER of recs that names a group is followed by a TOTAL row of
\* the same level and name.
HeadersClosed(recs) ==
    \A h \in 1..Len(recs) :
        (recs[h].ROW_TYPE = "HEADER" /\ recs[h].NAME # "")
        => \E t \in (h + 1)..Len(recs) :
                /\ recs[t].ROW_TYPE = "TOTAL"
                /\ recs[t].LEVEL = recs[h].LEVEL
                /\ recs[t].NAME = recs[h].NAME

\* The rows a close of level L writes: its TOTAL row, then, for Department,
\* Directorate and Directorate Group with a non-empty breakdown map, the
\* rank breakdown and the status breakdown.
CloseRows(L) ==
    <<TotalRow(LevelNames[L], Trackers[L], Sums[L])>>
    \o (IF /\ LevelNames[L] \in BreakdownLevels
           /\ (LevelDictOf(LevelNames[L]) # <<>> \/ StatusDictOf(LevelNames[L]) # <<>>)
        THEN <<BreakdownRow("Pangkat", LevelDictOf(LevelNames[L])),
               BreakdownRow("Status", StatusDictOf(LevelNames[L]))>>
        ELSE <<>>)

RECURSIVE FlushRows(_)
FlushRows(levels) ==
    IF levels = <<>> THEN <<>>
    ELSE CloseRows(Head(levels)) \o FlushRows(Tail(levels))

\* C8: after the last catalog row one TOTAL row, with the tracker's name
\* and the level's counters, is emitted for every level whose tracker is
\* non-empty and for no other level, in the order Cost Center, Department,
\* Division, Directorate, Directorate Group, each Department, Directorate
\* and Directorate-Group TOTAL directly followed by that group's BREAKDOWN
\* rows (present when the group counted an employee); in the finished table
\* every HEADER with a non-empty name is followed by a TOTAL row of the same
\* level and name.
C8_FinalFlush ==
    [][FinishStep =>
        /\ NewRows = FlushRows(OpenLevelsInnerFirst)
        /\ HeadersClosed(manning_records')
        /\ manning_table' = [present |-> TRUE, rows |-> manning_records']
      ]_vars

\* C8 witness: a finished run over two catalog rows whose last row has a
\* blank Department: the flush wrote TOTAL rows for the other four levels,
\* the last one with its BREAKDOWN rows.
C8_Witness ==
    /\ pc = "done"
    /\ Len(structural_df) >= 2
    /\ last_department = ""
    /\ last_cc # "" /\ last_division # "" /\ last_directorate # ""
    /\ last_dir_group # ""
    /\ manning_records[Len(manning_records)].ROW_TYPE = "BREAKDOWN"
    /\ manning_records[Len(manning_records) - 2].ROW_TYPE = "TOTAL"
    /\ manning_records[Len(manning_records) - 2].LEVEL = "Directorate Group"

\* The DATA rows among recs, in order.
DataRowsOf(recs) == SelectSeq(recs, LAMBDA row : row.ROW_TYPE = "DATA")

\* The employees a catalog row matches: same position code, same rank, not
\* assigned before the row is processed; in roster order.
MatchedBy(r) ==
    SelectSeq(cleaned_df,
              LAMBDA e : /\ e.PositionCode = r.PositionCode
                         /\ e.PangkatLevel = r.LevelPangkat
                         /\ e.RegNo \notin assigned_employees)

\* C9: each catalog row produces exactly max(1, actual) DATA rows.  With no
\* matching employee: one DATA row with the position fields, Actual = 0, the
\* no-incumbent marker as name and the other employee fields blank.
\* Otherwise: one DATA row with the position fields and the first matched
\* employee's fields, then one continuation row per remaining matched
\* employee with that employee's fields and every position and metric field
\* blank.
C9_DataRowsPerCatalogRow ==
    [][RowStep =>
        LET r == structural_df[idx]
            M == MatchedBy(r)
            D == DataRowsOf(NewRows)
        IN  /\ Len(D) = Max(1, Len(M))
            /\ D[1].PositionCode = r.PositionCode
            /\ D[1].PangkatLevel = r.LevelPangkat
            /\ D[1].Standard = r.Standard
            /\ D[1].Actual = Len(M)
            /\ IF Len(M) = 0
               THEN /\ D[1].Name = NO_INCUMBENT
                    /\ D[1].RegNo = "" /\ D[1].Status = ""
               ELSE /\ \A k \in 1..Len(M) :
                        /\ D[k].Name = M[k].Nama
                        /\ D[k].RegNo = M[k].RegNo
                        /\ D[k].Status = M[k].Status
                    /\ \A k \in 2..Len(M) :
                        /\ D[k].PositionCode = "" /\ D[k].PangkatLevel = ""
                        /\ D[k].Standard = BLANK /\ D[k].Actual = BLANK
                        /\ D[k].Vacant = BLANK /\ D[k].Excess = BLANK
      ]_vars

\* C9 witness: the output holds a position row with Actual = 2 directly
\* followed by a continuation row, and a no-incumbent row.
C9_Witness ==
    /\ \E k \in 1..(Len(manning_records) - 1) :
        /\ IsPositionRow(manning_records[k])
        /\ manning_records[k].Actual = 2
        /\ manning_records[k + 1].ROW_TYPE = "DATA"
        /\ manning_records[k + 1].Actual = BLANK
        /\ manning_records[k + 1].RegNo # ""
    /\ \E k \in 1..Len(manning_records) :
        /\ IsPositionRow(manning_records[k])
        /\ manning_records[k].Actual = 0
        /\ manning_records[k].Name = NO_INCUMBENT

\* C10: every DATA row of a catalog row with a numeric standard has
\* Vacant = max(0, standard - actual) and Excess = max(0, actual - standard),
\* so at most one of the two is non-zero.
C10_VacantExcess ==
    \A k \in 1..Len(manning_records) :
        (IsPositionRow(manning_records[k]) /\ manning_records[k].Standard # STAR)
        => LET row == manning_records[k]
           IN  /\ row.Vacant = Max(0, row.Standard - row.Actual)
               /\ row.Excess = Max(0, row.Actual - row.Standard)
               /\ (row.Vacant = 0 \/ row.Excess = 0)

\* C10 witness: the output holds a row with a numeric standard and a
\* surplus, and a row with a numeric standard and a shortfall.
C10_Witness ==
    /\ \E k \in 1..Len(manning_records) :
        /\ IsPositionRow(manning_records[k])
        /\ manning_records[k].Standard >= 0
        /\ manning_records[k].Excess > 0
    /\ \E k \in 1..Len(manning_records) :
        /\ IsPositionRow(manning_records[k])
        /\ manning_records[k].Standard >= 0
        /\ manning_records[k].Vacant > 0

\* Level L is closed by the step: the step appends its TOTAL row.
ClosedInStep(L) ==
    \E k \in 1..Len(NewRows) :
        NewRows[k].ROW_TYPE = "TOTAL" /\ NewRows[k].LEVEL = LevelNames[L]

\* Per output row: max(0, actual - standard) of a position row with a
\* numeric standard, 0 for any other row.
SurplusOf(recs) ==
    [k \in 1..Len(recs) |->
        IF IsPositionRow(recs[k]) /\ recs[k].Standard # STAR
        THEN Max(0, recs[k].Actual - recs[k].Standard)
        ELSE 0]

\* The position rows among recs, in order.
PositionRowsOf(recs) == SelectSeq(recs, IsPositionRow)

\* The step processes catalog row r as a wildcard row: its position row
\* shows the wildcard marker for Standard, Vacant and Excess, and each
\* level's counters (restarted from zero when the step closed the level)
\* gain the row's actual count and nothing else.
WildcardEffect(r) ==
    LET D == DataRowsOf(NewRows)
        actual == Len(MatchedBy(r))
    IN  /\ D[1].Standard = STAR /\ D[1].Vacant = STAR /\ D[1].Excess = STAR
        /\ D[1].Actual = actual
        /\ \A L \in 1..5 :
            Sums[L]' = IF ClosedInStep(L)
                       THEN [ZeroSum EXCEPT !.act = actual]
                       ELSE [Sums[L] EXCEPT !.act = @ + actual]

\* C11: a catalog row whose standard is missing, blank or the wildcard
\* marker gets Standard = Vacant = Excess = wildcard marker in its DATA row;
\* it adds its actual count to the actual sums of all five levels and
\* nothing to any level's standard, vacant or excess sum; every TOTAL row's
\* Vacant and Excess are the sums over the numeric rows of its group.
C11_WildcardStandard ==
    /\ [][(RowStep /\ structural_df[idx].Standard \in {NAN, BLANK, STAR})
            => WildcardEffect(structural_df[idx])]_vars
    /\ [](\A t \in 1..Len(manning_records) :
            manning_records[t].ROW_TYPE = "TOTAL" =>
                LET row == manning_records[t]
                    h == HeaderBefore(manning_records, t, row.LEVEL, row.NAME)
                IN  /\ row.Vacant = SumBetween(ShortfallOf(manning_records), h, t)
                    /\ row.Excess = SumBetween(SurplusOf(manning_records), h, t))

\* C11 witness: a finished run whose catalog has a row with a missing
\* standard that matched two employees and a numeric row that matched none:
\* the Department TOTAL counts both employees and only the numeric row's
\* vacancy.
C11_Witness ==
    /\ pc = "done"
    /\ \E k \in 1..Len(structural_df) : structural_df[k].Standard = NAN
    /\ \E k \in 1..Len(manning_records) :
        /\ IsPositionRow(manning_records[k])
        /\ manning_records[k].Standard = STAR
        /\ manning_records[k].Actual = 2
    /\ \E t \in 1..Len(manning_records) :
        /\ manning_records[t].ROW_TYPE = "TOTAL"
        /\ manning_records[t].LEVEL = "Department"
        /\ manning_records[t].Actual = 2
        /\ manning_records[t].Vacant = 1
        /\ manning_records[t].Excess = 0

\* What the position row of a catalog row shows as Standard.
StandardShown(r) ==
    IF r.Standard \in {NAN, BLANK, STAR, TEXT} THEN STAR ELSE r.Standard

\* C15: a catalog row whose standard is a text that is not a number is
\* processed as a wildcard row (wildcard marker for Standard, Vacant and
\* Excess, nothing added to the standard, vacant and excess sums); the run
\* goes on: the finished table is stored and holds one position row per
\* catalog row, in catalog order.
C15_UnparsableStandard ==
    /\ [][(RowStep /\ structural_df[idx].Standard = TEXT)
            => WildcardEffect(structural_df[idx])]_vars
    /\ [](pc = "done" =>
            LET P == PositionRowsOf(manning_table.rows)
            IN  /\ manning_table.present
                /\ Len(P) = Len(structural_df)
                /\ \A k \in 1..Len(P) :
                    /\ P[k].PositionCode = structural_df[k].PositionCode
                    /\ P[k].PangkatLevel = structural_df[k].LevelPangkat
                    /\ P[k].Standard = StandardShown(structural_df[k]))

\* C15 witness: a finished run over a row with an unparsable standard that
\* matched an employee, followed by a numeric row; both rows are in the
\* stored table.
C15_Witness ==
    /\ pc = "done"
    /\ Len(structural_df) = 2
    /\ structural_df[1].Standard = TEXT
    /\ structural_df[2].Standard = 1
    /\ manning_table.present
    /\ LET P == PositionRowsOf(manning_table.rows)
       IN  /\ Len(P) = 2
           /\ P[1].Standard = STAR /\ P[1].Actual >= 1
           /\ P[2].Standard = 1

\* dict after counting each key of keys, in order.
RECURSIVE CountAll(_, _)
CountAll(dict, keys) ==
    IF keys = <<>> THEN dict
    ELSE CountAll(DictInc(dict, Head(keys)), Tail(keys))

RanksOf(emps) == [k \in 1..Len(emps) |-> emps[k].PangkatLevel]

StatusesOf(emps) == [k \in 1..Len(emps) |-> emps[k].Status]

SumPlus(t, c) ==
    [std |-> t.std + c.std, act |-> t.act + c.act,
     vac |-> t.vac + c.vac, exc |-> t.exc + c.exc]

\* C12: when two consecutive catalog rows share Department and every outer
\* level but differ in non-empty Cost Center, the rows between their DATA
\* rows are exactly one Cost Center TOTAL (the old cost center, with its
\* counters) and one Cost Center HEADER (the new one); the counters of
\* Department, Division, Directorate and Directorate Group are not reset
\* and gain the new row's contribution, and the breakdown maps are not
\* reset and gain the new row's matched employees.
C12_CostCenterCycleOnly ==
    [][(/\ RowStep /\ idx > 1
        /\ \A L \in 1..4 :
            RowPath(structural_df[idx - 1])[L] = RowPath(structural_df[idx])[L]
        /\ structural_df[idx - 1].CostCenter # ""
        /\ structural_df[idx].CostCenter # ""
        /\ structural_df[idx - 1].CostCenter # structural_df[idx].CostCenter)
       => LET r == structural_df[idx]
              M == MatchedBy(r)
              D == DataRowsOf(NewRows)
          IN  /\ Len(NewRows) = 2 + Len(D)
              /\ NewRows[1] = TotalRow("Cost Center",
                                       structural_df[idx - 1].CostCenter, cc_sum)
              /\ NewRows[2] = HeaderRow("Cost Center", r.CostCenter)
              /\ \A k \in 3..Len(NewRows) : NewRows[k].ROW_TYPE = "DATA"
              /\ \A L \in 1..4 :
                    Sums[L]' = SumPlus(Sums[L], OwnContribution(D[1]))
              /\ dept_level_dict' = CountAll(dept_level_dict, RanksOf(M))
              /\ dept_status_dict' = CountAll(dept_status_dict, StatusesOf(M))
              /\ dir_level_dict' = CountAll(dir_level_dict, RanksOf(M))
              /\ dir_status_dict' = CountAll(dir_status_dict, StatusesOf(M))
              /\ dirgrp_level_dict' = CountAll(dirgrp_level_dict, RanksOf(M))
              /\ dirgrp_status_dict' = CountAll(dirgrp_status_dict, StatusesOf(M))
      ]_vars

\* C12 witness: the second of two rows of one Department opened a new Cost
\* Center; each row matched one employee: the Department counters and maps
\* hold both employees, the Cost Center counters the second only.
C12_Witness ==
    /\ pc = "loop" /\ idx = 3
    /\ structural_df[1].CostCenter # structural_df[2].CostCenter
    /\ dept_sum.act = 2 /\ cc_sum.act = 1
    /\ Len(dept_level_dict) = 2
    /\ \E k \in 1..Len(manning_records) :
        manning_records[k] = HeaderRow("Cost Center", structural_df[2].CostCenter)

\* A step that starts a run's loop.
RunStarts == pc # "loop" /\ pc' = "loop"

\* A step that ends a run in its except clause.
RunFails == pc' = "failed" /\ (pc # "failed" \/ runs' # runs)

\* C13: running the aggregation again on the same catalog and the same
\* cleaned records stores the same row sequence as the run before; every
\* run starts with fresh trackers, counters, breakdown maps, assignment set
\* and row list.
C13_RerunIdentical ==
    [][/\ RunStarts => LocalsAreFresh'
       /\ (FinishStep /\ manning_table.present)
            => /\ manning_table'.present
               /\ manning_table'.rows = manning_table.rows
      ]_vars

\* C13 witness: the second run of a session has finished over a catalog of
\* two rows with an employee assigned, and a table is stored.
C13_Witness ==
    /\ pc = "done" /\ runs = 2
    /\ Len(structural_df) = 2
    /\ assigned_employees # {}
    /\ manning_table.present
    /\ missing = "none"
    /\ Len(manning_table.rows) > 2

\* C14 (as stated): after a failed run the error is reported and no manning
\* table is available for display or export.
C14_NoTableAfterFailure ==
    pc = "failed" => (error /\ ~manning_table.present)

\* C14 (amended): a failed run reports the error and stores no table: it
\* leaves the stored manning table as it was before the run, so no table
\* is available after a failed first run, and the table of an earlier
\* successful run stays available after a later failed run.
C14_FailedRunStoresNothing ==
    /\ [][RunFails => (error' /\ manning_table' = manning_table)]_vars
    /\ []((pc = "failed" /\ runs = 1) => ~manning_table.present)

\* C14 witness: the second run of a session failed in its loop (the catalog
\* lacks the Standard column) and the first run's table is still stored.
C14_Witness ==
    /\ pc = "failed" /\ runs = 2
    /\ missing = "Standard"
    /\ error
    /\ manning_table.present
    /\ Len(manning_table.rows) > 0

\* The placeholder texts: empty, zero, not-a-number.
Placeholders == {<<>>, <<"0">>, NanText}

TrimmedRegNo(row) == strip(str(row.RegNo))

TrimmedName(row) == strip(str(row.Nama))

\* The stored cleaned data holds one record per row of kept, in order, with
\* the row's trimmed registration ID and name.
OneRecordPerRow(kept) ==
    /\ cleaned_data.present
    /\ Len(cleaned_data.rows) = Len(kept)
    /\ \A k \in 1..Len(kept) :
        /\ cleaned_data.rows[k].RegNo = TrimmedRegNo(kept[k])
        /\ cleaned_data.rows[k].Nama = TrimmedName(kept[k])

\* C16 (as stated): the cleaner keeps a roster row iff its trimmed
\* registration ID and its trimmed name are both non-empty and neither is a
\* placeholder text ('', '0', 'nan'); the output holds one record per kept
\* row, in input order.
C16_FilterBothPlaceholders ==
    cpc = "done" =>
        OneRecordPerRow(
            SelectSeq(master_df,
                      LAMBDA row : /\ TrimmedRegNo(row) \notin Placeholders
                                   /\ TrimmedName(row) \notin Placeholders))

\* C16 (amended): the cleaner keeps a roster row iff its trimmed
\* registration ID is none of '', '0', 'nan' and its trimmed name is
\* neither '' nor 'nan' (a name of '0' is kept); the output of a completed
\* run holds one record per kept row, in input order.
C16_Filter ==
    cpc = "done" =>
        OneRecordPerRow(
            SelectSeq(master_df,
                      LAMBDA row : /\ TrimmedRegNo(row) \notin Placeholders
                                   /\ TrimmedName(row) \notin {<<>>, NanText}))

\* C16 witness: a completed run over a roster of two rows, one with the
\* registration ID 0 and one with a padded ID and the name 0: only the
\* second is kept.
C16_Witness ==
    /\ cpc = "done"
    /\ Len(master_df) = 2
    /\ master_df[1].RegNo = PyInt(0)
    /\ master_df[2].RegNo = PyStr(<<"E", "1", " ">>)
    /\ master_df[2].Nama = PyInt(0)
    /\ Len(cleaned_data.rows) = 1
    /\ cleaned_data.rows[1].RegNo = <<"E", "1">>
    /\ cleaned_data.rows[1].Nama = <<"0">>

\* The catalog rows, by position, whose keyed position code equals code.
MatchingCatalogRows(code) ==
    {j \in 1..Len(lookup_df) : CatalogCode(lookup_df[j].PositionCode) = code}

\* C17: every cleaned record carries the normalized position code of its
\* roster row; when that code is non-empty and some catalog row has it, the
\* record's position name, rank and five organizational values are those of
\* the first such catalog row in catalog order, whatever the ranks; when
\* the code is empty or no catalog row has it, every resolved field is the
\* empty string.
C17_FirstCatalogMatch ==
    \A k \in 1..Len(cleaned_records) :
        LET rec == cleaned_records[k]
            F == MatchingCatalogRows(rec.PositionCode)
        IN  /\ rec.PositionCode = RosterCode(valid_employees[k].PositionCode).code
            /\ IF rec.PositionCode # <<>> /\ F # {}
               THEN LET c == lookup_df[CHOOSE j \in F : \A i \in F : j <= i]
                    IN  /\ rec.Resolved.PositionDescription = c.PositionName
                        /\ rec.Resolved.PangkatStruktural = c.LevelPangkat
                        /\ rec.Resolved.Directorate = c.Directorate
                        /\ rec.Resolved.Division = c.Division
                        /\ rec.Resolved.Department = c.Department
                        /\ rec.Resolved.CostCenter = c.CostCenter
                        /\ rec.Resolved.DirGroup = c.DepartmentGroup
               ELSE \A f \in DOMAIN rec.Resolved : rec.Resolved[f] = ""

\* C17 witness: a completed run whose catalog holds the same code twice,
\* rank II first: the employee of rank I got the first row's rank II, and a
\* second employee without a code got empty fields.
C17_Witness ==
    /\ cpc = "done"
    /\ Len(lookup_df) = 2
    /\ lookup_df[1].LevelPangkat = "II" /\ lookup_df[2].LevelPangkat = "I"
    /\ Len(cleaned_data.rows) = 2
    /\ cleaned_data.rows[1].PositionCode = <<"5">>
    /\ cleaned_data.rows[1].PangkatLevel = "I"
    /\ cleaned_data.rows[1].Resolved.PangkatStruktural = "II"
    /\ Cardinality(MatchingCatalogRows(<<"5">>)) = 2
    /\ cleaned_data.rows[2].PositionCode = <<>>
    /\ cleaned_data.rows[2].Resolved.Department = ""

\* C18: the roster's and the catalog's position codes are normalized the
\* same way before the cleaner's lookup: a roster row and a catalog row with
\* equal raw position-code cells get equal join keys.
C18_EqualRawEqualKey ==
    \A k \in 1..Len(cleaned_records) :
        \A j \in 1..Len(lookup_df) :
            valid_employees[k].PositionCode = lookup_df[j].PositionCode
            => cleaned_records[k].PositionCode
                    = CatalogCode(lookup_df[j].PositionCode)

\* A step that ends the cleaner's run in its except clause.
CleanFails == cpc # "failed" /\ cpc' = "failed"

\* C19: when cleaned-data generation fails, the error is reported and the
\* stored cleaned data is left as it was; in a session's first run nothing
\* is stored, so none of the records built before the failure is stored or
\* shown.
C19_NoPartialOutput ==
    /\ [][CleanFails => (error' /\ cleaned_data' = cleaned_data)]_vars
    /\ [](cpc = "failed" => ~cleaned_data.present)

\* C19 witness: the run failed on its second roster row, after a cleaned
\* record was built for the first; nothing is stored.
C19_Witness ==
    /\ cpc = "failed"
    /\ error
    /\ emp_idx = 2
    /\ Len(cleaned_records) = 1
    /\ ~cleaned_data.present

SameKey(a, b) ==
    a.PositionCode = b.PositionCode /\ a.LevelPangkat = b.LevelPangkat

\* C20: employees are consumed first-come-first-served in catalog sort
\* order: the first catalog row with a given (position code, rank) receives
\* every employee with that code and rank that is not assigned yet, in
\* roster order, and all of them are assigned from then on; each later
\* catalog row with the same (position code, rank) gets Actual = 0 and a
\* single no-incumbent row.
C20_FirstComeFirstServed ==
    [][RowStep =>
        LET r == structural_df[idx]
            M == MatchedBy(r)
            D == DataRowsOf(NewRows)
        IN  /\ \A k \in 1..Len(cleaned_df) :
                (/\ cleaned_df[k].PositionCode = r.PositionCode
                 /\ cleaned_df[k].PangkatLevel = r.LevelPangkat)
                => cleaned_df[k].RegNo \in assigned_employees'
            /\ IF \E k \in 1..(idx - 1) : SameKey(structural_df[k], r)
               THEN /\ Len(D) = 1
                    /\ D[1].Actual = 0
                    /\ D[1].Name = NO_INCUMBENT
                    /\ D[1].RegNo = ""
               ELSE /\ D[1].Actual = Len(M)
                    /\ \A k \in 1..Len(M) : D[k].RegNo = M[k].RegNo
      ]_vars

\* C20 witness: two catalog rows with the same position code and rank were
\* processed; the first received both employees, the second has Actual = 0
\* and the no-incumbent row.
C20_Witness ==
    /\ idx = 3
    /\ SameKey(structural_df[1], structural_df[2])
    /\ Cardinality(assigned_employees) = 2
    /\ LET P == PositionRowsOf(manning_records)
       IN  /\ Len(P) = 2
           /\ P[1].Actual = 2
           /\ P[2].Actual = 0 /\ P[2].Name = NO_INCUMBENT

\* The three breakdown levels as positions of LevelNames.
BreakdownDepths == {1, 2, 4}

RankDicts == <<dirgrp_level_dict, dir_level_dict, <<>>, dept_level_dict, <<>>>>

StatusDicts == <<dirgrp_status_dict, dir_status_dict, <<>>, dept_status_dict, <<>>>>

\* C21: a matched employee is counted into the rank map and the status map
\* of Department, Directorate and Directorate Group exactly for those of
\* the three levels whose value in the current catalog row is non-empty
\* (the maps restarting from empty when the step closed the level); no
\* BREAKDOWN row follows a Division or Cost Center TOTAL.
C21_BreakdownOnlyNamedLevels ==
    [][RowStep =>
        LET r == structural_df[idx]
            M == MatchedBy(r)
        IN  /\ \A L \in BreakdownDepths :
                LET rank0 == IF ClosedInStep(L) THEN <<>> ELSE RankDicts[L]
                    stat0 == IF ClosedInStep(L) THEN <<>> ELSE StatusDicts[L]
                IN  IF RowPath(r)[L] # ""
                    THEN /\ RankDicts[L]' = CountAll(rank0, RanksOf(M))
                         /\ StatusDicts[L]' = CountAll(stat0, StatusesOf(M))
                    ELSE /\ RankDicts[L]' = rank0
                         /\ StatusDicts[L]' = stat0
            /\ \A k \in 1..(Len(NewRows) - 1) :
                (/\ NewRows[k].ROW_TYPE = "TOTAL"
                 /\ NewRows[k].LEVEL \in {"Division", "Cost Center"})
                => NewRows[k + 1].ROW_TYPE # "BREAKDOWN"
      ]_vars

\* C21 witness: a catalog row with a blank Department and a named
\* Directorate matched two employees: the Directorate and Directorate-Group
\* maps count them, the Department maps are empty.
C21_Witness ==
    /\ pc = "loop" /\ idx >= 2
    /\ structural_df[idx - 1].Department = ""
    /\ structural_df[idx - 1].Directorate # ""
    /\ dept_level_dict = <<>> /\ dept_status_dict = <<>>
    /\ Len(dir_level_dict) = 2 /\ Len(dir_status_dict) = 2
    /\ Len(dirgrp_level_dict) = 2
    /\ dir_sum.act = 2

\* The raw Standard cell is a number to the metric computation.
IsNumericStandard(x) == x \notin {NAN, BLANK, STAR, TEXT}

\* C22: a numeric standard is added to the five levels' standard sums only
\* when it is greater than 0, while max(0, actual - standard) is added to
\* the excess sums whatever the standard's sign (so a standard of 0 with
\* actual > 0 adds to the excess sums and not to the standard sums); a
\* TOTAL row shows Standard blank when its level's standard sum is 0 and
\* the sum otherwise.
C22_PositiveStandardsSummed ==
    [][/\ (RowStep /\ IsNumericStandard(structural_df[idx].Standard)) =>
            LET r == structural_df[idx]
                actual == Len(MatchedBy(r))
            IN  \A L \in 1..5 :
                    LET base == IF ClosedInStep(L) THEN ZeroSum ELSE Sums[L]
                    IN  /\ Sums[L]'.std =
                             base.std + (IF r.Standard > 0 THEN r.Standard ELSE 0)
                        /\ Sums[L]'.exc = base.exc + Max(0, actual - r.Standard)
       /\ \A k \in 1..Len(NewRows) :
            NewRows[k].ROW_TYPE = "TOTAL" =>
                LET sum == Sums[Depth(NewRows[k].LEVEL)].std
                IN  NewRows[k].Standard = IF sum = 0 THEN BLANK ELSE sum
      ]_vars

\* C22 witness: a finished run whose first cost center holds one row of
\* standard 0 that matched an employee and whose second holds a row of
\* positive standard: the first Cost Center TOTAL shows a blank Standard
\* and the excess, the second shows its standard.
C22_Witness ==
    /\ pc = "done"
    /\ Len(structural_df) = 2
    /\ structural_df[1].Standard = 0
    /\ structural_df[2].Standard = MaxStandard
    /\ \E t, u \in 1..Len(manning_records) :
        /\ t < u
        /\ manning_records[t].ROW_TYPE = "TOTAL"
        /\ manning_records[t].LEVEL = "Cost Center"
        /\ manning_records[t].Standard = BLANK
        /\ manning_records[t].Excess >= 1
        /\ manning_records[u].ROW_TYPE = "TOTAL"
        /\ manning_records[u].LEVEL = "Cost Center"
        /\ manning_records[u].Standard = MaxStandard

Min2(a, b) == IF a < b THEN a ELSE b

\* C23: no roster row with anomalous data aborts cleaned-data generation:
\* the run never fails in its loop, every kept row processed so far has a
\* cleaned record, and a row whose position code is missing or matches no
\* catalog row has its resolved fields empty.
C23_NoRowAborts ==
    /\ cpc # "failed"
    /\ cpc \in {"loop", "done"} =>
        /\ Len(cleaned_records) = Min2(emp_idx - 1, Len(valid_employees))
        /\ \A k \in 1..Len(cleaned_records) :
            MatchingCatalogRows(cleaned_records[k].PositionCode) = {}
            => cleaned_records[k].Resolved = NoResolved

\* out is what the normalizer is to return for the raw cell x: empty for a
\* missing, blank or 'nan' cell; for a text with a decimal point, the
\* decimal digits of its integer part without leading zeros when the text
\* is a number, and the text before the first point when it is not; the
\* trimmed text in every other case.
IsCleanCodeOf(x, out) ==
    LET s == strip(str(x))
        n == IntOfFloat(PyStr(s))
    IN  IF x.t = "nan" \/ s = <<>> \/ s = NanText
        THEN out = <<>>
        ELSE IF HasDot(s)
        THEN IF n.ok
             THEN /\ out # <<>> /\ IsDigits(out)
                  /\ DigitsValue(out) = n.v
                  /\ (Len(out) > 1 => out[1] # "0")
             ELSE out = BeforeDot(s)
        ELSE out = s

\* C24: the aggregation normalizer maps missing, empty and 'nan' values to
\* the empty string, a value containing a decimal point to its integer part
\* formatted with no leading zeros (to the text before the first point when
\* the numeric conversion fails), and every other value to itself, trimmed;
\* it is applied to every Position Code cell of the catalog and the roster.
C24_Normalizer ==
    [][/\ (pc = "read" /\ pc' = "catalog") =>
            /\ Len(structural_df') = Len(structural_df)
            /\ \A k \in 1..Len(structural_df) :
                IsCleanCodeOf(structural_df[k].PositionCode,
                              structural_df'[k].PositionCode)
       /\ (pc = "catalog" /\ pc' = "normalized") =>
            /\ Len(cleaned_df') = Len(cleaned_df)
            /\ \A k \in 1..Len(cleaned_df) :
                IsCleanCodeOf(cleaned_df[k].PositionCode,
                              cleaned_df'[k].PositionCode)
      ]_vars

\* C24 witness: both tables are normalised; the catalog holds a code with
\* its leading zero (from the text '05'; a text with a point loses it) and
\* the code '1' (only the unparsable '1.2.3' gives it), the roster the code
\* '5' (from 5.0 or '05.0') and an empty code (from a missing cell).
C24_Witness ==
    /\ pc = "normalized"
    /\ Len(structural_df) = 2 /\ Len(cleaned_df) = 2
    /\ structural_df[1].PositionCode = <<"0", "5">>
    /\ structural_df[2].PositionCode = <<"1">>
    /\ cleaned_df[1].PositionCode = <<"5">>
    /\ cleaned_df[2].PositionCode = <<>>

\* Every organizational value of the catalog is non-empty and no group
\* name at any level occurs under two different parent paths.
IsTree(df) ==
    /\ \A k \in 1..Len(df) : \A L \in 1..5 : RowPath(df[k])[L] # ""
    /\ \A a, b \in 1..Len(df) : \A L \in 1..5 :
        RowPath(df[a])[L] = RowPath(df[b])[L]
        => SubSeq(RowPath(df[a]), 1, L) = SubSeq(RowPath(df[b]), 1, L)

\* The output rows of the given type, level and name, by position.
RowsOf(recs, type, level_name, name) ==
    {k \in 1..Len(recs) : /\ recs[k].ROW_TYPE = type
                          /\ recs[k].LEVEL = level_name
                          /\ recs[k].NAME = name}

\* Per output row: the standard of a position row when it is a positive
\* number, 0 for any other row.
PositiveStandardOf(recs) ==
    [k \in 1..Len(recs) |->
        IF IsPositionRow(recs[k]) /\ recs[k].Standard > 0
        THEN recs[k].Standard ELSE 0]

\* Per output row: 1 for a position row, 0 for any other row.
PositionCountOf(recs) ==
    [k \in 1..Len(recs) |-> IF IsPositionRow(recs[k]) THEN 1 ELSE 0]

\* C25: when every organizational value in the catalog is non-empty and no
\* group name occurs under two parent paths, the finished table holds, for
\* every group of the catalog, exactly one HEADER and exactly one TOTAL, the
\* HEADER first; the position rows between them are exactly the group's
\* catalog rows, and the TOTAL's Standard (a blank cell standing for a sum
\* of 0), Actual, Vacant and Excess are the sums of the positive standards,
\* the actual counts, the shortfalls and the surpluses of those rows.
C25_TreeGroupsTotalled ==
    (pc = "done" /\ IsTree(structural_df)) =>
        \A L \in 1..5 : \A j \in 1..Len(structural_df) :
            LET name == RowPath(structural_df[j])[L]
                H == RowsOf(manning_records, "HEADER", LevelNames[L], name)
                T == RowsOf(manning_records, "TOTAL", LevelNames[L], name)
                members == {k \in 1..Len(structural_df) :
                                RowPath(structural_df[k])[L] = name}
            IN  /\ Cardinality(H) = 1 /\ Cardinality(T) = 1
                /\ LET h == CHOOSE k \in H : TRUE
                       t == CHOOSE k \in T : TRUE
                       row == manning_records[t]
                   IN  /\ h < t
                       /\ SumBetween(PositionCountOf(manning_records), h, t)
                            = Cardinality(members)
                       /\ SumBetween(PositionCountOf(manning_records), 0, h)
                            = Cardinality({k \in 1..Len(structural_df) :
                                                \A i \in members : k < i})
                       /\ (IF row.Standard = BLANK THEN 0 ELSE row.Standard)
                            = SumBetween(PositiveStandardOf(manning_records), h, t)
                       /\ row.Actual = SumBetween(ActualOf(manning_records), h, t)
                       /\ row.Vacant = SumBetween(ShortfallOf(manning_records), h, t)
                       /\ row.Excess = SumBetween(SurplusOf(manning_records), h, t)

\* C25 witness: a finished run over a tree catalog of three rows, two in
\* one cost center and one under another directorate; the first Division
\* TOTAL counts the two employees of its own rows.
C25_Witness ==
    /\ pc = "done"
    /\ IsTree(structural_df)
    /\ Len(structural_df) = 3
    /\ structural_df[1].CostCenter = structural_df[2].CostCenter
    /\ structural_df[3].Directorate # structural_df[1].Directorate
    /\ structural_df[3].Division # structural_df[1].Division
    /\ \E t \in 1..Len(manning_records) :
        /\ manning_records[t].ROW_TYPE = "TOTAL"
        /\ manning_records[t].LEVEL = "Division"
        /\ manning_records[t].NAME = structural_df[1].Division
        /\ manning_records[t].Actual = 2

\* Registration IDs are unique among the cleaned employee records.
UniqueRegNos ==
    \A a, b \in 1..Len(cleaned_df) :
        cleaned_df[a].RegNo = cleaned_df[b].RegNo => a = b

\* The catalog rows, by position, with the employee's position code and
\* rank.
CatalogRowsFor(e) ==
    {k \in 1..Len(structural_df) :
        /\ structural_df[k].PositionCode = e.PositionCode
        /\ structural_df[k].LevelPangkat = e.PangkatLevel}

\* The DATA and continuation rows of recs carrying the registration ID.
RowsCarrying(recs, regno) ==
    {a \in 1..Len(recs) : recs[a].ROW_TYPE = "DATA" /\ recs[a].RegNo = regno}

\* C26: with unique registration IDs, in the finished table every employee
\* whose (position code, rank) is that of some catalog row is in exactly
\* one DATA or continuation row, in the block of the first such catalog
\* row in sort order; every other employee is in no row; the sum of Actual
\* over the position rows is the number of such employees and the size of
\* the assignment set.
C26_EachEmployeeOnce ==
    (pc = "done" /\ UniqueRegNos) =>
        LET placed == {e \in 1..Len(cleaned_df) : CatalogRowsFor(cleaned_df[e]) # {}}
        IN  /\ \A e \in 1..Len(cleaned_df) :
                LET rows == RowsCarrying(manning_records, cleaned_df[e].RegNo)
                    K == CatalogRowsFor(cleaned_df[e])
                IN  IF e \in placed
                    THEN /\ Cardinality(rows) = 1
                         /\ \A a \in rows :
                              SumBetween(PositionCountOf(manning_records), 0, a + 1)
                                = CHOOSE k \in K : \A j \in K : k <= j
                    ELSE rows = {}
            /\ SumBetween(ActualOf(manning_records), 0, Len(manning_records) + 1)
                 = Cardinality(placed)
            /\ Cardinality(assigned_employees) = Cardinality(placed)

\* C26 witness: a finished run over two catalog rows with the same position
\* code and rank and two employees with different registration IDs, one of
\* that rank and one of another: the first is in the first row's block, the
\* second in no row.
C26_Witness ==
    /\ pc = "done"
    /\ UniqueRegNos
    /\ Len(structural_df) = 2 /\ Len(cleaned_df) = 2
    /\ SameKey(structural_df[1], structural_df[2])
    /\ CatalogRowsFor(cleaned_df[1]) = {1, 2}
    /\ CatalogRowsFor(cleaned_df[2]) = {}
    /\ Cardinality(assigned_employees) = 1
    /\ RowsCarrying(manning_records, cleaned_df[2].RegNo) = {}
    /\ \E a \in RowsCarrying(manning_records, cleaned_df[1].RegNo) :
        IsPositionRow(manning_records[a]) /\ manning_records[a].Actual = 1

\* Every catalog standard is a non-negative number.
StandardsNonNegative ==
    \A k \in 1..Len(structural_df) :
        IsNumericStandard(structural_df[k].Standard) /\ structural_df[k].Standard >= 0

\* standardSum + excessSum = actualSum + vacantSum
Balanced(std, act, vac, exc) == std + exc = act + vac

\* C27: in every DATA row with a numeric standard, Standard + Excess =
\* Actual + Vacant; when every catalog standard is a non-negative number,
\* each level's running sums satisfy standardSum + excessSum = actualSum +
\* vacantSum after every processed catalog row, and so does every TOTAL
\* row, a blank Standard read as 0.
C27_BalanceIdentity ==
    /\ \A k \in 1..Len(manning_records) :
        (/\ IsPositionRow(manning_records[k])
         /\ manning_records[k].Standard # STAR)
        => Balanced(manning_records[k].Standard, manning_records[k].Actual,
                    manning_records[k].Vacant, manning_records[k].Excess)
    /\ StandardsNonNegative =>
        /\ \A L \in 1..5 :
            Balanced(Sums[L].std, Sums[L].act, Sums[L].vac, Sums[L].exc)
        /\ \A t \in 1..Len(manning_records) :
            manning_records[t].ROW_TYPE = "TOTAL" =>
                Balanced(IF manning_records[t].Standard = BLANK
                         THEN 0 ELSE manning_records[t].Standard,
                         manning_records[t].Actual,
                         manning_records[t].Vacant, manning_records[t].Excess)

\* C27 witness: a finished run over non-negative standards, one row of
\* standard 0 with an employee in excess and one of positive standard left
\* vacant; the Department TOTAL shows the standard, one actual, one vacancy
\* and one excess.
C27_Witness ==
    /\ pc = "done"
    /\ StandardsNonNegative
    /\ Len(structural_df) = 2
    /\ structural_df[1].Standard = 0
    /\ structural_df[2].Standard = MaxStandard
    /\ \E t \in 1..Len(manning_records) :
        /\ manning_records[t].ROW_TYPE = "TOTAL"
        /\ manning_records[t].LEVEL = "Department"
        /\ manning_records[t].Standard = MaxStandard
        /\ manning_records[t].Actual = 1
        /\ manning_records[t].Vacant = MaxStandard
        /\ manning_records[t].Excess = 1

\* Every Department, Directorate and Directorate-Group value of the catalog
\* is non-empty.
BreakdownLevelsNamed ==
    \A k \in 1..Len(structural_df) :
        \A L \in BreakdownDepths : RowPath(structural_df[k])[L] # ""

\* The sum of the counts of a breakdown map.
RECURSIVE DictTotal(_)
DictTotal(dict) ==
    IF dict = <<>> THEN 0 ELSE Head(dict).v + DictTotal(Tail(dict))

\* C28: when every Department, Directorate and Directorate-Group value in
\* the catalog is non-empty, every rank BREAKDOWN row directly follows a
\* TOTAL row and is directly followed by a status BREAKDOWN row, and the
\* counts of each of the two sum to that TOTAL row's Actual.
C28_BreakdownSumsToActual ==
    BreakdownLevelsNamed =>
        \A k \in 1..Len(manning_records) :
            (/\ manning_records[k].ROW_TYPE = "BREAKDOWN"
             /\ manning_records[k].KIND = "Pangkat")
            => /\ k > 1 /\ k < Len(manning_records)
               /\ manning_records[k - 1].ROW_TYPE = "TOTAL"
               /\ manning_records[k + 1].ROW_TYPE = "BREAKDOWN"
               /\ manning_records[k + 1].KIND = "Status"
               /\ DictTotal(manning_records[k].ITEMS) = manning_records[k - 1].Actual
               /\ DictTotal(manning_records[k + 1].ITEMS) = manning_records[k - 1].Actual

\* C28 witness: a finished run over a catalog with every level named, two
\* rows of different ranks in one department, each with one employee: the
\* Department TOTAL has Actual 2 and its breakdowns list two ranks and two
\* status categories with one employee each.
C28_Witness ==
    /\ pc = "done"
    /\ BreakdownLevelsNamed
    /\ \E k \in 2..(Len(manning_records) - 1) :
        /\ manning_records[k - 1].ROW_TYPE = "TOTAL"
        /\ manning_records[k - 1].LEVEL = "Department"
        /\ manning_records[k - 1].Actual = 2
        /\ manning_records[k].ROW_TYPE = "BREAKDOWN"
        /\ Len(manning_records[k].ITEMS) = 2
        /\ manning_records[k + 1].ROW_TYPE = "BREAKDOWN"
        /\ Len(manning_records[k + 1].ITEMS) = 2

\* C29: at every point of a run, for each of Department, Directorate and
\* Directorate Group, the rank map and the status map are both empty or
\* both non-empty; a close of a group that counted no employee (its maps
\* are empty, or its TOTAL shows Actual 0) writes no BREAKDOWN row, and no
\* BREAKDOWN row with an empty list (the text
\* 'Pangkat breakdown: -' or 'Status breakdown: -') is ever written.
C29_MapsEmptyTogether ==
    /\ [](\A L \in BreakdownDepths : (RankDicts[L] = <<>>) <=> (StatusDicts[L] = <<>>))
    /\ [](\A k \in 1..Len(manning_records) :
            manning_records[k].ROW_TYPE = "BREAKDOWN"
            => manning_records[k].ITEMS # <<>>)
    /\ [][\A k \in 1..Len(NewRows) :
            (/\ NewRows[k].ROW_TYPE = "TOTAL"
             /\ NewRows[k].LEVEL \in BreakdownLevels
             /\ \/ RankDicts[Depth(NewRows[k].LEVEL)] = <<>>
                \/ NewRows[k].Actual = 0)
            => (k = Len(NewRows) \/ NewRows[k + 1].ROW_TYPE # "BREAKDOWN")]_vars

\* C29 witness: a finished run in which a Department that counted no
\* employee was closed without BREAKDOWN rows (its TOTAL is directly
\* followed by the next Department's HEADER) and a later group that counted
\* employees was closed with them.
C29_Witness ==
    /\ pc = "done"
    /\ \E k \in 1..(Len(manning_records) - 1) :
        /\ manning_records[k].ROW_TYPE = "TOTAL"
        /\ manning_records[k].LEVEL = "Directorate"
        /\ manning_records[k].Actual = 0
        /\ manning_records[k + 1].ROW_TYPE # "BREAKDOWN"
    /\ \E k \in 1..Len(manning_records) : manning_records[k].ROW_TYPE = "BREAKDOWN"

\* The HEADER rows of recs at level L, by position.
HeadersAt(recs, L) ==
    {k \in 1..Len(recs) :
        recs[k].ROW_TYPE = "HEADER" /\ recs[k].LEVEL = LevelNames[L]}

\* The five values of the catalog row before row k; all empty for k = 1.
PreviousPath(k) ==
    IF k = 1 THEN <<"", "", "", "", "">> ELSE RowPath(structural_df[k - 1])

\* C30: after each catalog row is processed the five trackers equal the
\* row's five organizational values; the step writes a HEADER at level L
\* (one, with the row's value as name) exactly when either no outer level's
\* value differs from the previous row's and the value at L differs from
\* the previous row's, or some outer level's value differs from the
\* previous row's and the value at L is non-empty; the first row is
\* compared against all-empty values.
C30_TrackersFollowRow ==
    [][RowStep =>
        LET path == RowPath(structural_df[idx])
            prev == PreviousPath(idx)
        IN  /\ Trackers' = path
            /\ \A L \in 1..5 :
                LET outer_differs == \E O \in 1..(L - 1) : path[O] # prev[O]
                    H == HeadersAt(NewRows, L)
                IN  /\ Cardinality(H) <= 1
                    /\ \A k \in H : NewRows[k].NAME = path[L]
                    /\ (H # {}) <=>
                        \/ ~outer_differs /\ path[L] # prev[L]
                        \/ outer_differs /\ path[L] # ""
      ]_vars

\* C30 witness: the second catalog row changed the Directorate Group and
\* has a blank Department where the first had a named one: the trackers are
\* the second row's values, no second Department HEADER was written, a
\* second Division HEADER was.
C30_Witness ==
    /\ pc = "loop" /\ idx = 3
    /\ structural_df[2].DepartmentGroup # structural_df[1].DepartmentGroup
    /\ structural_df[2].Division = structural_df[1].Division
    /\ structural_df[1].Department # ""
    /\ structural_df[2].Department = ""
    /\ Trackers = RowPath(structural_df[2])
    /\ Cardinality(HeadersAt(manning_records, 4)) = 1
    /\ Cardinality(HeadersAt(manning_records, 3)) = 2

\* A step of the manning-table handler, a step of the cleaned-data
\* handler (the click included).
ManningStep == pc' # pc \/ idx' # idx \/ manning_records' # manning_records

CleanerStep == cpc' # cpc \/ emp_idx' # emp_idx

\* C31: no step of a manning-table generation run modifies the stored
\* cleaned data (the roster the run normalises is a copy); no step of a
\* cleaned-data generation run modifies the stored manning table; every
\* step of either run other than the one that completes it successfully
\* leaves both stored tables as they are, so a failed run leaves both
\* exactly as they were before the run; a new session stores neither.
C31_SessionStateFrame ==
    /\ [][/\ ManningStep => cleaned_data' = cleaned_data
          /\ CleanerStep => manning_table' = manning_table
          /\ ~(pc = "loop" /\ pc' = "done") => manning_table' = manning_table
          /\ ~(cpc = "loop" /\ cpc' = "done") => cleaned_data' = cleaned_data
          /\ (RunFails \/ CleanFails) =>
                (cleaned_data' = cleaned_data /\ manning_table' = manning_table)
         ]_vars
    /\ [](runs = 0 => (~cleaned_data.present /\ ~manning_table.present))

\* C31 witness: after a cleaned-data run and a manning-table run succeeded,
\* a second manning-table run failed in its loop: both tables are still
\* stored, and the stored cleaned data holds the code '5.0' that the run's
\* own roster copy holds normalised to '5'.
C31_Witness ==
    /\ pc = "failed" /\ missing = "Standard"
    /\ runs = 3
    /\ manning_table.present /\ Len(manning_table.rows) > 0
    /\ cleaned_data.present /\ Len(cleaned_data.rows) > 0
    /\ cleaned_data.rows[1].PositionCode = <<"5", ".", "0">>
    /\ cleaned_df[1].PositionCode = <<"5">>

====
